---- MODULE Spec2Model ----
(***************************************************************************)
(* Model of the streaming slide parser (services/streamParser.ts), of its  *)
(* caller handleFinalGeneration (views/Generator/Index.tsx) and of the     *)
(* batch orchestrator generatePresentationStream (services/gemini.ts).     *)
(*                                                                         *)
(* Text is a sequence of one-character strings.  Indexes into text are     *)
(* 0-based, as in the source; Sub(s, a, b) is s.substring(a, b).           *)
(***************************************************************************)
EXTENDS Integers, Sequences, FiniteSets, TLC

\* ------------------------------------------------------------------------
\* Bounds of the model
\* ------------------------------------------------------------------------
MaxBatches == 2
MaxChunk == 2
MaxOutline == 9
MaxStreamChunks == 2
MaxRaw == 3
MaxAttributes == 2
MaxCandidates == 2
MaxFragment == 3
MaxDeck == 9
MaxDeckIds == 2
MaxSlides == 2
MaxInFlight == 2
MaxImages == 11
MaxImageSlides == 2

\* ------------------------------------------------------------------------
\* Constants of the program
\* ------------------------------------------------------------------------
BATCH_SIZE == 4
maxRetries == 3

\* ------------------------------------------------------------------------
\* Characters and text helpers
\* ------------------------------------------------------------------------
QUOTE == "\""
BSL == "\\"
NL == "\n"
\* the backquote character (written as a name: the lexer of TLA+ does not
\* accept a backquote inside a string)
TICK == "BQ"

Min(a, b) == IF a < b THEN a ELSE b
Max(a, b) == IF a > b THEN a ELSE b

\* s.substring(a, b) for 0 <= a, b (0-based, b exclusive)
Sub(s, a, b) ==
  LET lo == Min(Min(a, b), Len(s))
      hi == Min(Max(a, b), Len(s))
  IN IF lo >= hi THEN <<>> ELSE SubSeq(s, lo + 1, hi)

\* s.substring(a)
SubFrom(s, a) == Sub(s, a, Len(s))

\* s[i] (0-based); "" stands for undefined past the end
At(s, i) == IF i >= 0 /\ i < Len(s) THEN s[i + 1] ELSE ""

\* does pat occur in s at 0-based position i
StartsAt(s, pat, i) ==
  /\ i >= 0
  /\ i + Len(pat) <= Len(s)
  /\ pat # <<>> => s[i + 1] = pat[1]
  /\ \A k \in 2..Len(pat) : s[i + k] = pat[k]

\* the least element of a non-empty set of integers
MinOf(S) == CHOOSE x \in S : \A y \in S : x <= y

\* s.indexOf(pat): the first position where pat occurs, or -1
IndexOf(s, pat) ==
  LET found == {i \in 0..(Len(s) - Len(pat)) : StartsAt(s, pat, i)}
  IN IF found = {} THEN -1 ELSE MinOf(found)

\* one step of s.replace(/pat/g, rep) at position st.i: a match is replaced
\* and the scan resumes behind it, any other character is copied
ReplaceStep(s, pat, rep, st) ==
  IF StartsAt(s, pat, st.i)
  THEN [i |-> st.i + Len(pat), out |-> st.out \o rep]
  ELSE [i |-> st.i + 1, out |-> Append(st.out, s[st.i + 1])]

RECURSIVE ReplaceRange(_, _, _, _, _, _)
\* the steps of the replace scan at the positions lo <= i < hi, in order
\* (a position the scan has already passed is not visited); the range is
\* halved so that the evaluation depth stays logarithmic
ReplaceRange(s, pat, rep, lo, hi, st) ==
  IF st.i >= hi THEN st
  ELSE IF hi - lo = 1 THEN ReplaceStep(s, pat, rep, st)
  ELSE LET mid == (lo + hi) \div 2
           left == ReplaceRange(s, pat, rep, lo, mid, st)
       IN IF left.i >= mid THEN ReplaceRange(s, pat, rep, mid, hi, left) ELSE left

\* s.replace(/pat/g, rep) for a literal pattern: leftmost, non-overlapping,
\* one pass (the replacement text is not scanned again)
ReplaceAll(s, pat, rep) ==
  IF IndexOf(s, pat) = -1 THEN s
  ELSE ReplaceRange(s, pat, rep, 0, Len(s), [i |-> 0, out |-> <<>>]).out

\* the regular expression class \s, over the characters of the model
IsSpace(c) == c \in {" ", NL, "\t", "\r", "U+0B", "U+0C"}

RECURSIVE SkipSpace(_, _)
\* position of the first non-space character at or after i
SkipSpace(s, i) ==
  IF i < Len(s) /\ IsSpace(s[i + 1]) THEN SkipSpace(s, i + 1) ELSE i

RECURSIVE TrimEnd(_)
TrimEnd(s) ==
  IF Len(s) > 0 /\ IsSpace(s[Len(s)]) THEN TrimEnd(SubSeq(s, 1, Len(s) - 1))
  ELSE s

\* String.prototype.trim
Trim(s) == TrimEnd(SubFrom(s, SkipSpace(s, 0)))

\* ------------------------------------------------------------------------
\* JSON values and JSON.parse
\* A value is a record [t, v]: t is the JavaScript type, v its payload.
\* ------------------------------------------------------------------------
JStr(cs) == [t |-> "string", v |-> cs]
JNum(lexeme) == [t |-> "number", v |-> lexeme]
JLit(name) == [t |-> name, v |-> <<>>]
JArr(elems) == [t |-> "array", v |-> elems]
JObj(members) == [t |-> "object", v |-> members]
Undefined == [t |-> "undefined", v |-> <<>>]
JNull == JLit("null")

Digits == {"0", "1", "2", "3", "4", "5", "6", "7", "8", "9"}
HexDigits == Digits \cup {"a", "b", "c", "d", "e", "f", "A", "B", "C", "D", "E", "F"}

ParseFail == [ok |-> FALSE, pos |-> 0, val |-> Undefined]
ParseOk(p, x) == [ok |-> TRUE, pos |-> p, val |-> x]

\* the character an escape \c stands for; "" when \c is not an escape
EscapeChar(c) ==
  CASE c = QUOTE -> QUOTE
    [] c = BSL -> BSL
    [] c = "/" -> "/"
    [] c = "n" -> NL
    [] c = "t" -> "\t"
    [] c = "r" -> "\r"
    [] c = "b" -> "\\b"
    [] c = "f" -> "\f"
    [] OTHER -> ""

RECURSIVE ParseStringBody(_, _, _)
\* the characters of a JSON string whose opening quote is at i - 1
ParseStringBody(s, i, acc) ==
  IF i >= Len(s) THEN ParseFail
  ELSE LET c == s[i + 1] IN
    IF c = QUOTE THEN ParseOk(i + 1, JStr(acc))
    ELSE IF c = BSL THEN
      LET e == At(s, i + 1) IN
      IF e = "u" THEN
        IF \A k \in 2..5 : At(s, i + k) \in HexDigits
        THEN ParseStringBody(s, i + 6,
               Append(acc, "\\u" \o s[i + 3] \o s[i + 4] \o s[i + 5] \o s[i + 6]))
        ELSE ParseFail
      ELSE IF EscapeChar(e) = "" THEN ParseFail
      ELSE ParseStringBody(s, i + 2, Append(acc, EscapeChar(e)))
    ELSE IF c \in {NL, "\t", "\r", "\f", "\\b"} THEN ParseFail
    ELSE ParseStringBody(s, i + 1, Append(acc, c))

RECURSIVE SkipDigits(_, _)
SkipDigits(s, i) ==
  IF At(s, i) \in Digits THEN SkipDigits(s, i + 1) ELSE i

\* a JSON number starting at i: -? int frac? exp?
ParseNumber(s, i) ==
  LET a == IF At(s, i) = "-" THEN i + 1 ELSE i
      b == IF At(s, a) = "0" THEN a + 1 ELSE SkipDigits(s, a)
      c == IF At(s, b) = "." THEN SkipDigits(s, b + 1) ELSE b
      e0 == IF At(s, c) \in {"e", "E"}
            THEN (IF At(s, c + 1) \in {"+", "-"} THEN c + 2 ELSE c + 1)
            ELSE c
      d == IF e0 > c THEN SkipDigits(s, e0) ELSE c
  IN IF b = a THEN ParseFail
     ELSE IF At(s, b) = "." /\ c = b + 1 THEN ParseFail
     ELSE IF e0 > c /\ d = e0 THEN ParseFail
     ELSE ParseOk(d, JNum(Sub(s, i, d)))

ParseLiteral(s, i) ==
  IF StartsAt(s, <<"t", "r", "u", "e">>, i) THEN ParseOk(i + 4, JLit("true"))
  ELSE IF StartsAt(s, <<"f", "a", "l", "s", "e">>, i) THEN ParseOk(i + 5, JLit("false"))
  ELSE IF StartsAt(s, <<"n", "u", "l", "l">>, i) THEN ParseOk(i + 4, JNull)
  ELSE ParseFail

RECURSIVE ParseValue(_, _)
RECURSIVE ParseMembers(_, _, _)
RECURSIVE ParseElements(_, _, _)

\* the members of an object, the first key's opening quote expected at i
ParseMembers(s, i, acc) ==
  IF At(s, i) # QUOTE THEN ParseFail
  ELSE LET key == ParseStringBody(s, i + 1, <<>>) IN
    IF ~key.ok THEN ParseFail
    ELSE LET colon == SkipSpace(s, key.pos) IN
      IF At(s, colon) # ":" THEN ParseFail
      ELSE LET val == ParseValue(s, SkipSpace(s, colon + 1)) IN
        IF ~val.ok THEN ParseFail
        ELSE LET next == SkipSpace(s, val.pos)
                 acc2 == Append(acc, [k |-> key.val.v, val |-> val.val])
             IN IF At(s, next) = "," THEN ParseMembers(s, SkipSpace(s, next + 1), acc2)
                ELSE IF At(s, next) = "}" THEN ParseOk(next + 1, JObj(acc2))
                ELSE ParseFail

\* the elements of an array, the first element expected at i
ParseElements(s, i, acc) ==
  LET val == ParseValue(s, i) IN
  IF ~val.ok THEN ParseFail
  ELSE LET next == SkipSpace(s, val.pos)
           acc2 == Append(acc, val.val)
       IN IF At(s, next) = "," THEN ParseElements(s, SkipSpace(s, next + 1), acc2)
          ELSE IF At(s, next) = "]" THEN ParseOk(next + 1, JArr(acc2))
          ELSE ParseFail

\* the JSON value starting at i (i is not a space)
ParseValue(s, i) ==
  LET c == At(s, i) IN
  IF c = "{" THEN
    LET j == SkipSpace(s, i + 1) IN
    IF At(s, j) = "}" THEN ParseOk(j + 1, JObj(<<>>)) ELSE ParseMembers(s, j, <<>>)
  ELSE IF c = "[" THEN
    LET j == SkipSpace(s, i + 1) IN
    IF At(s, j) = "]" THEN ParseOk(j + 1, JArr(<<>>)) ELSE ParseElements(s, j, <<>>)
  ELSE IF c = QUOTE THEN ParseStringBody(s, i + 1, <<>>)
  ELSE IF c = "-" \/ c \in Digits THEN ParseNumber(s, i)
  ELSE ParseLiteral(s, i)

\* JSON.parse(s): ok = FALSE stands for the SyntaxError it throws
JsonParse(s) ==
  LET r == ParseValue(s, SkipSpace(s, 0)) IN
  IF r.ok /\ SkipSpace(s, r.pos) = Len(s) THEN r ELSE ParseFail

RECURSIVE GetFrom(_, _, _)
GetFrom(members, key, i) ==
  IF i = 0 THEN Undefined
  ELSE IF members[i].k = key THEN members[i].val
  ELSE GetFrom(members, key, i - 1)

\* x.key for a parsed value x that is not null (a duplicated key keeps its
\* last value; a value that is not an object has no such property)
Get(x, key) == IF x.t = "object" THEN GetFrom(x.v, key, Len(x.v)) ELSE Undefined

\* JavaScript truthiness of a parsed value
Truthy(x) ==
  CASE x.t = "string" -> x.v # <<>>
    [] x.t = "number" -> \E k \in 1..Len(x.v) : x.v[k] \in (Digits \ {"0"})
    [] x.t \in {"object", "array", "true"} -> TRUE
    [] OTHER -> FALSE

\* a === b for parsed values: objects and arrays of different parses are
\* different references
StrictEq(a, b) ==
  /\ a.t = b.t
  /\ a.t \notin {"object", "array"}
  /\ a.v = b.v

\* ------------------------------------------------------------------------
\* parseLiveStream (services/streamParser.ts)
\* ------------------------------------------------------------------------
FenceJson == <<TICK, TICK, TICK, "j", "s", "o", "n">>
Fence == <<TICK, TICK, TICK>>
KeySlides == <<"s", "l", "i", "d", "e", "s">>
KeyTitle == <<"t", "i", "t", "l", "e">>
KeyContent == <<"c", "o", "n", "t", "e", "n", "t">>
CloseDiv == <<"<", "/", "d", "i", "v", ">">>

\* a cleaning that knows only the bare fence
cleanStreamBareFenceOnly(stream) == Trim(ReplaceAll(stream, Fence, <<>>))

\* 1. ROBUST CLEANING: both replace passes, then trim
cleanStream(stream) ==
  Trim(ReplaceAll(ReplaceAll(stream, FenceJson, <<>>), Fence, <<>>))

\* length of the match of /"key"\s*:\s*open/ at position p, 0 when none
FieldOpenAt(s, key, open, p) ==
  LET colon == SkipSpace(s, p + Len(key) + 2)
      last == SkipSpace(s, colon + 1)
  IN IF /\ At(s, p) = QUOTE
        /\ StartsAt(s, key, p + 1)
        /\ At(s, p + Len(key) + 1) = QUOTE
        /\ At(s, colon) = ":"
        /\ At(s, last) = open
     THEN last + 1 - p ELSE 0

\* s.match(/"key"\s*:\s*open/): the first match; index -1 is a null match
MatchFieldOpen(s, key, open) ==
  LET found == {p \in 0..(Len(s) - 1) : FieldOpenAt(s, key, open, p) > 0}
      first == MinOf(found)
  IN IF found = {} THEN [index |-> -1, length |-> 0]
     ELSE [index |-> first, length |-> FieldOpenAt(s, key, open, first)]

\* a batch scan without the escape look-ahead
BatchNeverSkips(cs, i) == FALSE

\* "Skip escaped characters" of the batch scan: a backslash that is not the
\* last character consumes the character after it
BatchSkipsEscape(cs, i) == At(cs, i) = BSL /\ i + 1 < Len(cs)

\* a batch scan without the try block: the error of JSON.parse escapes
BatchParseAborts(st) == [st EXCEPT !.thrown = TRUE]

\* the catch block of the batch scan: the error of JSON.parse is dropped
BatchParseFailed(st) == [st EXCEPT !.currentObjectStartIndex = -1]

\* an assignment of the batch's slides in place of the push
ReplaceBatchSlides(completeSlides, slides) ==
  IF slides.t = "array" THEN slides.v ELSE completeSlides

\* if (batch.slides && Array.isArray(batch.slides)) completeSlides.push(...)
PushBatchSlides(completeSlides, slides) ==
  IF slides.t = "array" THEN completeSlides \o slides.v ELSE completeSlides

\* the try block of the batch scan, once JSON.parse has returned or thrown
BatchParsed(i, st, parsed) ==
  IF parsed.ok
  THEN [st EXCEPT !.completeSlides = PushBatchSlides(@, Get(parsed.val, KeySlides)),
                  !.lastValidBatchEndIndex = i + 1,
                  !.currentObjectStartIndex = -1]
  ELSE BatchParseFailed(st)

\* root level object closure at i: parse the candidate batch
CloseBatch(cs, i, st) ==
  BatchParsed(i, st, JsonParse(Sub(cs, st.currentObjectStartIndex, i + 1)))

\* a loop body that counts braces inside strings too
BatchCharCountsInStrings(cs, i, st) ==
  LET char == At(cs, i)
  IN IF char = "{"
       THEN [st EXCEPT !.currentObjectStartIndex = IF st.braceCount = 0 THEN i ELSE @,
                       !.braceCount = @ + 1]
     ELSE IF char = "}"
       THEN LET s2 == [st EXCEPT !.braceCount = @ - 1] IN
            IF s2.braceCount = 0 /\ s2.currentObjectStartIndex # -1
            THEN CloseBatch(cs, i, s2) ELSE s2
     ELSE st

\* the body of the batch loop on a character that is not skipped
BatchChar(cs, i, st) ==
  LET char == At(cs, i)
      s1 == IF char = QUOTE THEN [st EXCEPT !.inString = ~@] ELSE st
  IN IF s1.inString THEN s1
     ELSE IF char = "{"
       THEN [s1 EXCEPT !.currentObjectStartIndex = IF s1.braceCount = 0 THEN i ELSE @,
                       !.braceCount = @ + 1]
     ELSE IF char = "}"
       THEN LET s2 == [s1 EXCEPT !.braceCount = @ - 1] IN
            IF s2.braceCount = 0 /\ s2.currentObjectStartIndex # -1
            THEN CloseBatch(cs, i, s2) ELSE s2
     ELSE s1

\* one iteration of the batch loop at i = st.i, with its i++
BatchIteration(cs, st) ==
  IF BatchSkipsEscape(cs, st.i) THEN [st EXCEPT !.i = @ + 2]
  ELSE [BatchChar(cs, st.i, st) EXCEPT !.i = @ + 1]

RECURSIVE BatchScan(_, _, _, _)
\* PHASE 1: the iterations of the batch loop with lo <= i < hi, in order
\* (the range is halved so that the evaluation depth stays logarithmic)
BatchScan(cs, lo, hi, st) ==
  IF st.i >= hi \/ st.thrown THEN st
  ELSE IF hi - lo = 1 THEN BatchIteration(cs, st)
  ELSE LET mid == (lo + hi) \div 2
           left == BatchScan(cs, lo, mid, st)
       IN IF left.i >= mid THEN BatchScan(cs, mid, hi, left) ELSE left

BatchScanInit ==
  [i |-> 0, braceCount |-> 0, inString |-> FALSE, currentObjectStartIndex |-> -1,
   lastValidBatchEndIndex |-> 0, completeSlides |-> <<>>, thrown |-> FALSE]

RECURSIVE SomeSameTitle(_, _, _)
\* completeSlides.some(s => s.title === title), from element k on:
\* "true", "false", or "throw" for the TypeError of s.title on a null s
SomeSameTitle(slides, k, title) ==
  IF k > Len(slides) THEN "false"
  ELSE IF slides[k].t = "null" THEN "throw"
  ELSE IF StrictEq(Get(slides[k], KeyTitle), title) THEN "true"
  ELSE SomeSameTitle(slides, k + 1, title)

\* a slide scan without the try block: the error escapes
SlideTryRethrows(st) == [st EXCEPT !.thrown = TRUE]

\* the catch block of the slide scan: whatever the try block threw is dropped
SlideTryFailed(st) == [st EXCEPT !.slideStartIndex = -1]

\* the try block of the slide scan, once JSON.parse has returned or thrown
SlideParsed(j, st, parsed) ==
  LET slide == parsed.val
      title == Get(slide, KeyTitle)
      exists == SomeSameTitle(st.completeSlides, 1, title)
  IN IF ~parsed.ok THEN SlideTryFailed(st)
     ELSE IF ~(Truthy(title) /\ Truthy(Get(slide, KeyContent)))
       THEN [st EXCEPT !.slideStartIndex = -1]
     ELSE IF exists = "throw" THEN SlideTryFailed(st)
     ELSE [st EXCEPT !.completeSlides = IF exists = "true" THEN @ ELSE Append(@, slide),
                     !.lastParsedSlideEnd = j + 1,
                     !.slideStartIndex = -1]

\* "Found a slide object candidate" closing at j
SlideCandidate(slidesString, j, st) ==
  SlideParsed(j, st, JsonParse(Sub(slidesString, st.slideStartIndex, j + 1)))

\* a slide scan that counts the braces of string values too
SlideCharCountsInStrings(slidesString, j, st) ==
  LET char == At(slidesString, j)
  IN IF char = "{"
       THEN [st EXCEPT !.slideStartIndex = IF st.slideBraceCount = 0 THEN j ELSE @,
                       !.slideBraceCount = @ + 1]
     ELSE IF char = "}"
       THEN LET s2 == [st EXCEPT !.slideBraceCount = @ - 1] IN
            IF s2.slideBraceCount = 0 /\ s2.slideStartIndex # -1
            THEN SlideCandidate(slidesString, j, s2) ELSE s2
     ELSE st

\* the body of the slide loop on a character that is not a backslash
SlideChar(slidesString, j, st) ==
  LET char == At(slidesString, j)
      s1 == IF char = QUOTE THEN [st EXCEPT !.slideInString = ~@] ELSE st
  IN IF s1.slideInString THEN s1
     ELSE IF char = "{"
       THEN [s1 EXCEPT !.slideStartIndex = IF s1.slideBraceCount = 0 THEN j ELSE @,
                       !.slideBraceCount = @ + 1]
     ELSE IF char = "}"
       THEN LET s2 == [s1 EXCEPT !.slideBraceCount = @ - 1] IN
            IF s2.slideBraceCount = 0 /\ s2.slideStartIndex # -1
            THEN SlideCandidate(slidesString, j, s2) ELSE s2
     ELSE s1

\* a slide scan without the escape look-ahead
SlideNeverSkips(slidesString, j) == FALSE

\* the escape look-ahead of the slide scan: a backslash consumes the
\* character after it
SlideSkipsEscape(slidesString, j) == At(slidesString, j) = BSL

\* one iteration of the slide loop at j = st.j, with its j++
SlideIteration(slidesString, st) ==
  IF SlideSkipsEscape(slidesString, st.j) THEN [st EXCEPT !.j = @ + 2]
  ELSE [SlideChar(slidesString, st.j, st) EXCEPT !.j = @ + 1]

RECURSIVE SlideScan(_, _, _, _)
\* PHASE 2: the iterations of the slide loop with lo <= j < hi, in order
SlideScan(slidesString, lo, hi, st) ==
  IF st.j >= hi \/ st.thrown THEN st
  ELSE IF hi - lo = 1 THEN SlideIteration(slidesString, st)
  ELSE LET mid == (lo + hi) \div 2
           left == SlideScan(slidesString, lo, mid, st)
       IN IF left.j >= mid THEN SlideScan(slidesString, mid, hi, left) ELSE left

SlideScanInit(completeSlides) ==
  [j |-> 0, slideBraceCount |-> 0, slideStartIndex |-> -1, slideInString |-> FALSE,
   lastParsedSlideEnd |-> 0, completeSlides |-> completeSlides, thrown |-> FALSE]

\* an extractor that leaves the JSON escapes in place
UnescapeNothing(partialHtml) == partialHtml

\* the three replace passes over the partial content
Unescape(partialHtml) ==
  ReplaceAll(ReplaceAll(ReplaceAll(partialHtml, <<BSL, QUOTE>>, <<QUOTE>>),
                        <<BSL, "n">>, <<NL>>),
             <<BSL, BSL>>, <<BSL>>)

\* a preview that is never given a closing tag
RenderPartialUnclosed(partialHtml) ==
  IF IndexOf(partialHtml, <<">">>) > -1 THEN partialHtml ELSE <<>>

\* PHASE 3: the in-progress HTML of the active slide part
\* "Check if there's at least an opening tag to render", then the
\* synthesised closing tag
RenderPartial(partialHtml) ==
  IF IndexOf(partialHtml, <<">">>) > -1
  THEN (IF IndexOf(partialHtml, CloseDiv) = -1
        THEN partialHtml \o CloseDiv ELSE partialHtml)
  ELSE <<>>

\* the body of PHASE 3 once the content field opener was searched
ExtractAfterMatch(activeSlidePart, contentMatch) ==
  IF contentMatch.index = -1 THEN <<>>
  ELSE RenderPartial(Unescape(SubFrom(activeSlidePart,
                                      contentMatch.index + contentMatch.length)))

ExtractInProgress(activeSlidePart) ==
  ExtractAfterMatch(activeSlidePart,
                    MatchFieldOpen(activeSlidePart, KeyContent, QUOTE))

\* an extractor that ignores the flag
ExtractsAlways(isStreamComplete) == TRUE

\* the guard of PHASE 3
ExtractsInProgress(isStreamComplete) == ~isStreamComplete

\* the object parseLiveStream returns, and whether it threw instead
ParseResult(completeSlides, inProgressHtml, threw) ==
  [completeSlides |-> completeSlides, inProgressHtml |-> inProgressHtml,
   threw |-> threw]

\* PHASE 3 and the return statement, after the slide loop ended in p2
AfterSlideScan(slidesString, p2, isStreamComplete) ==
  IF p2.thrown THEN ParseResult(p2.completeSlides, <<>>, TRUE)
  ELSE ParseResult(p2.completeSlides,
                   IF ExtractsInProgress(isStreamComplete)
                   THEN ExtractInProgress(SubFrom(slidesString, p2.lastParsedSlideEnd))
                   ELSE <<>>,
                   FALSE)

\* PHASE 2 over the text behind the opener of the slides array
PartialBatch(slidesString, completeSlides, isStreamComplete) ==
  AfterSlideScan(slidesString,
                 SlideScan(slidesString, 0, Len(slidesString),
                           SlideScanInit(completeSlides)),
                 isStreamComplete)

\* if (!slidesArrayMatch || slidesArrayMatch.index === undefined) return
AfterSlidesMatch(remainingStream, slidesArrayMatch, completeSlides, isStreamComplete) ==
  IF slidesArrayMatch.index = -1 THEN ParseResult(completeSlides, <<>>, FALSE)
  ELSE PartialBatch(SubFrom(remainingStream,
                            slidesArrayMatch.index + slidesArrayMatch.length),
                    completeSlides, isStreamComplete)

\* the text behind the last valid batch is searched for the slides array
Remaining(remainingStream, completeSlides, isStreamComplete) ==
  AfterSlidesMatch(remainingStream, MatchFieldOpen(remainingStream, KeySlides, "["),
                   completeSlides, isStreamComplete)

\* what follows the batch loop, which ended in p1
AfterBatchScan(cs, p1, isStreamComplete) ==
  IF p1.thrown THEN ParseResult(p1.completeSlides, <<>>, TRUE)
  ELSE Remaining(SubFrom(cs, p1.lastValidBatchEndIndex), p1.completeSlides,
                 isStreamComplete)

\* PHASE 1 over the cleaned stream, then the rest
ParseCleaned(cs, isStreamComplete) ==
  AfterBatchScan(cs, BatchScan(cs, 0, Len(cs), BatchScanInit), isStreamComplete)

parseLiveStream(stream, isStreamComplete) ==
  ParseCleaned(cleanStream(stream), isStreamComplete)

\* ------------------------------------------------------------------------
\* transformPollinationsURLs (services/streamParser.ts)
\* ------------------------------------------------------------------------

\* the characters of the codes 0 .. 127, in order; a control character
\* without an escape of its own is written as the name of its code
Ascii ==
  <<"U+00", "U+01", "U+02", "U+03", "U+04", "U+05", "U+06", "U+07",
     "U+08", "\t", NL, "U+0B", "U+0C", "\r", "U+0E", "U+0F",
     "U+10", "U+11", "U+12", "U+13", "U+14", "U+15", "U+16", "U+17",
     "U+18", "U+19", "U+1A", "U+1B", "U+1C", "U+1D", "U+1E", "U+1F",
     " ", "!", "\"", "#", "$", "%", "&", "'",
     "(", ")", "*", "+", ",", "-", ".", "/",
     "0", "1", "2", "3", "4", "5", "6", "7",
     "8", "9", ":", ";", "<", "=", ">", "?",
     "@", "A", "B", "C", "D", "E", "F", "G",
     "H", "I", "J", "K", "L", "M", "N", "O",
     "P", "Q", "R", "S", "T", "U", "V", "W",
     "X", "Y", "Z", "[", "\\", "]", "^", "_",
     TICK, "a", "b", "c", "d", "e", "f", "g",
     "h", "i", "j", "k", "l", "m", "n", "o",
     "p", "q", "r", "s", "t", "u", "v", "w",
     "x", "y", "z", "{", "|", "}", "~", "U+7F">>

\* the code of a character of that table, -1 for none
CodeOf(c) ==
  IF \E n \in 1..128 : Ascii[n] = c THEN (CHOOSE n \in 1..128 : Ascii[n] = c) - 1 ELSE -1

UpperHex == <<"0", "1", "2", "3", "4", "5", "6", "7", "8", "9", "A", "B", "C", "D", "E", "F">>
LowerHex == <<"0", "1", "2", "3", "4", "5", "6", "7", "8", "9", "a", "b", "c", "d", "e", "f">>

\* the value of a hexadecimal digit, -1 when c is none
HexVal(c) ==
  IF \E n \in 1..16 : UpperHex[n] = c \/ LowerHex[n] = c
  THEN (CHOOSE n \in 1..16 : UpperHex[n] = c \/ LowerHex[n] = c) - 1
  ELSE -1

\* the lower case of a letter, any other character unchanged (the i flag)
UpperLetters == {Ascii[n + 1] : n \in 65..90}

LowerCase(c) == IF c \in UpperLetters THEN Ascii[CodeOf(c) + 33] ELSE c

\* the characters encodeURIComponent leaves as they are
Unreserved ==
  {Ascii[n + 1] : n \in (48..57) \cup (65..90) \cup (97..122)}
    \cup {"-", "_", ".", "!", "~", "*", "'", "(", ")"}

\* encodeURIComponent of one character: %XX with upper case digits unless
\* the character is unreserved
EncodeChar(c) ==
  IF c \in Unreserved THEN <<c>>
  ELSE <<"%", UpperHex[(CodeOf(c) \div 16) + 1], UpperHex[(CodeOf(c) % 16) + 1]>>

RECURSIVE encodeURIComponent(_)
encodeURIComponent(text) ==
  IF text = <<>> THEN <<>>
  ELSE EncodeChar(Head(text)) \o encodeURIComponent(Tail(text))

\* the byte an escape at position i of text stands for, -1 when the two
\* characters behind the % are not both hexadecimal digits
EscapedByte(text, i) ==
  IF HexVal(At(text, i + 1)) >= 0 /\ HexVal(At(text, i + 2)) >= 0
  THEN 16 * HexVal(At(text, i + 1)) + HexVal(At(text, i + 2))
  ELSE -1

\* decodeURIComponent throws URIError: some % is not followed by two
\* hexadecimal digits, or stands for a byte that is no character by itself
\* (the escapes of a character of several bytes are not modelled: no text
\* drawn below holds one)
DecodeThrows(text) ==
  \E i \in 0..(Len(text) - 1) :
    /\ text[i + 1] = "%"
    /\ (EscapedByte(text, i) < 0 \/ EscapedByte(text, i) > 127)

RECURSIVE DecodeFrom(_, _)
\* decodeURIComponent of a text it does not throw on, from position i
DecodeFrom(text, i) ==
  IF i >= Len(text) THEN <<>>
  ELSE IF text[i + 1] = "%"
    THEN <<Ascii[EscapedByte(text, i) + 1]>> \o DecodeFrom(text, i + 3)
  ELSE <<text[i + 1]>> \o DecodeFrom(text, i + 1)

decodeURIComponent(text) == DecodeFrom(text, 0)

\* raw.replace(/_/g, " ")
UnderscoresToSpaces(raw) == [k \in 1..Len(raw) |-> IF raw[k] = "_" THEN " " ELSE raw[k]]

UrlHttp == <<"h", "t", "t", "p">>
UrlHost == <<":", "/", "/", "g", "e", "n", ".", "p", "o", "l", "l", "i", "n", "a", "t", "i", "o", "n", "s", ".", "a", "i", "/", "i", "m", "a", "g", "e", "/">>
UrlBase == <<"h", "t", "t", "p", "s", ":", "/", "/", "g", "e", "n", ".", "p", "o", "l", "l", "i", "n", "a", "t", "i", "o", "n", "s", ".", "a", "i", "/", "i", "m", "a", "g", "e", "/">>
UrlModel == <<"?", "m", "o", "d", "e", "l", "=", "f", "l", "u", "x", "&", "k", "e", "y", "=">>

\* does pat, given in lower case, occur in s at position i whatever the case
StartsAtAnyCase(s, pat, i) ==
  /\ i >= 0
  /\ i + Len(pat) <= Len(s)
  /\ \A k \in 1..Len(pat) : LowerCase(s[i + k]) = pat[k]

\* length of the match of /https?:\/\/gen\.pollinations\.ai\/image\// at
\* position p (i flag), 0 when none
UrlPrefixAt(s, p) ==
  IF ~StartsAtAnyCase(s, UrlHttp, p) THEN 0
  ELSE IF LowerCase(At(s, p + 4)) = "s" /\ StartsAtAnyCase(s, UrlHost, p + 5)
    THEN 5 + Len(UrlHost)
  ELSE IF StartsAtAnyCase(s, UrlHost, p + 4) THEN 4 + Len(UrlHost)
  ELSE 0

\* the class [^\\"\s>]
IsUrlChar(c) == c # BSL /\ c # QUOTE /\ ~IsSpace(c) /\ c # ">"

\* the end of the longest run of [^\\"\s>] that starts at q
UrlRawEnd(s, q) ==
  MinOf({e \in q..Len(s) : e = Len(s) \/ ~IsUrlChar(s[e + 1])})

\* is there a match of the whole expression at p: the prefix and at least
\* one character of the group
UrlMatchAt(s, p) ==
  /\ UrlPrefixAt(s, p) > 0
  /\ UrlRawEnd(s, p + UrlPrefixAt(s, p)) > p + UrlPrefixAt(s, p)

\* the callback of replaceAll, for a group it does not throw on
Replacement(raw, apiKey) ==
  UrlBase \o encodeURIComponent(decodeURIComponent(UnderscoresToSpaces(raw)))
          \o UrlModel \o apiKey

\* the first match at or behind position from, -1 when there is none
NextUrlMatch(s, from) ==
  IF \E p \in from..(Len(s) - 1) : UrlMatchAt(s, p)
  THEN MinOf({p \in from..(Len(s) - 1) : UrlMatchAt(s, p)})
  ELSE -1

\* a text put in front of the result of the rest
PrependTo(head, rest) ==
  IF rest.threw THEN rest ELSE [threw |-> FALSE, text |-> head \o rest.text]

RECURSIVE ReplaceUrlsFrom(_, _, _)

\* the replacement of the match at p, whose group is s[q .. e), and of the
\* matches behind it
ReplaceUrlGroup(s, from, p, q, e, apiKey) ==
  IF DecodeThrows(UnderscoresToSpaces(Sub(s, q, e)))
  THEN [threw |-> TRUE, text |-> <<>>]
  ELSE PrependTo(Sub(s, from, p) \o Replacement(Sub(s, q, e), apiKey),
                 ReplaceUrlsFrom(s, e, apiKey))

\* the same, the group being found behind the prefix
ReplaceUrlAt(s, from, p, apiKey) ==
  ReplaceUrlGroup(s, from, p, p + UrlPrefixAt(s, p),
                  UrlRawEnd(s, p + UrlPrefixAt(s, p)), apiKey)

\* input.replaceAll(urlRegex, callback) from position from on: the text of
\* the result, or the URIError of the first callback that throws
ReplaceUrlsFrom(s, from, apiKey) ==
  IF NextUrlMatch(s, from) = -1 THEN [threw |-> FALSE, text |-> SubFrom(s, from)]
  ELSE ReplaceUrlAt(s, from, NextUrlMatch(s, from), apiKey)

transformPollinationsURLs(input, apiKey) == ReplaceUrlsFrom(input, 0, apiKey)

\* ------------------------------------------------------------------------
\* The text a backend turn produces: one JSON object of the response schema
\* { slides: [ { title, content } ] }, serialised with JSON string escaping
\* ------------------------------------------------------------------------
RECURSIVE EscapeJson(_)
EscapeJson(text) ==
  IF text = <<>> THEN <<>>
  ELSE LET c == Head(text)
           e == IF c = QUOTE THEN <<BSL, QUOTE>>
                ELSE IF c = BSL THEN <<BSL, BSL>>
                ELSE IF c = NL THEN <<BSL, "n">>
                ELSE <<c>>
       IN e \o EscapeJson(Tail(text))

Quoted(text) == <<QUOTE>> \o EscapeJson(text) \o <<QUOTE>>

EncodeSlide(slide) ==
  <<"{">> \o Quoted(KeyTitle) \o <<":">> \o Quoted(slide.title) \o <<",">>
          \o Quoted(KeyContent) \o <<":">> \o Quoted(slide.content) \o <<"}">>

RECURSIVE EncodeSlides(_)
EncodeSlides(slides) ==
  IF slides = <<>> THEN <<>>
  ELSE EncodeSlide(Head(slides))
       \o (IF Len(slides) > 1 THEN <<",">> ELSE <<>>)
       \o EncodeSlides(Tail(slides))

EncodeBatch(slides) ==
  <<"{">> \o Quoted(KeySlides) \o <<":", "[">> \o EncodeSlides(slides) \o <<"]", "}">>

\* the slide records the model's backend answers with
SlideA == [title |-> <<"A">>, content |-> <<"<", "p", ">", "x">>]
SlideB == [title |-> <<"B">>, content |-> <<"<", "a", QUOTE, "b", ">", "{">>]
SlideJ == [title |-> <<"A">>, content |-> <<"<", "i", ">", "j", "s", "o", "n">>]

\* a turn's output: a batch of the response schema, or a fragment that is
\* not one (kind tells which; slides holds the records of a batch)
BatchPiece(slides) == [kind |-> "batch", slides |-> slides, text |-> EncodeBatch(slides)]
FragmentPiece(kind, text) == [kind |-> kind, slides |-> <<>>, text |-> text]

ValidPieces == {BatchPiece(<<SlideA>>), BatchPiece(<<SlideJ, SlideB>>)}

\* {x}: brace-balanced, not JSON.  {"slides":[null]}: JSON whose slides
\* array holds a member that is not an object.  {"a":1}: a JSON object
\* without a slides array
BadPieces ==
  {FragmentPiece("notJson", <<"{", "x", "}">>),
   FragmentPiece("nullMember",
                 <<"{">> \o Quoted(KeySlides) \o <<":", "[", "n", "u", "l", "l", "]", "}">>),
   FragmentPiece("noSlides", <<"{">> \o Quoted(<<"a">>) \o <<":", "1", "}">>)}

InsertAt(seq, k, x) == Sub(seq, 0, k) \o <<x>> \o SubFrom(seq, k)

WellFormedScripts == UNION {[1..n -> ValidPieces] : n \in 0..MaxBatches}

\* what the backend will stream, turn by turn: valid batches, with at most
\* one fragment among them
Scripts ==
  WellFormedScripts
  \cup UNION {{InsertAt(w, k, b) : k \in 0..Len(w), b \in BadPieces} : w \in WellFormedScripts}

\* ------------------------------------------------------------------------
\* State
\* ------------------------------------------------------------------------
VARIABLES
  script,               \* the text of every turn of the backend (the input)
  turn,                 \* the turn being streamed, from 1
  offset,               \* characters of that turn's text already yielded
  step,                 \* Generator step, and where handleFinalGeneration is
  fullResponse,         \* let fullResponse
  parsedBuffer,         \* the buffer the latest call of parseLiveStream was given
  chunkIsComplete,      \* chunk.isComplete of the last chunk
  generatedSlides,      \* React state generatedSlides
  inProgressSlideHtml,  \* React state inProgressSlideHtml
  caught,               \* what the catch block of handleFinalGeneration got
  fencedAt,             \* where a fence marker was interleaved, -1 when none
  fencedMarker,         \* that marker
  fencedResponse,       \* the stream with the marker interleaved
  fencedResult,         \* the parse of fencedResponse
  outlineLength,        \* outline.length of generatePresentationStream
  loopI,                \* its loop variable i
  genPc,                \* where the generator is
  abandoned,            \* the consumer has left its for await behind a chunk
  attempt,              \* the loop variable i of _withRetry
  sendPending,          \* turns whose sendMessageStream call has not settled
  openStreams,          \* turns whose response stream is open
  drainedTurns,         \* turns whose response stream was read to its end
  chunksLeft,           \* chunks the open response stream still holds
  sentLog,              \* every sendMessageStream call, in order
  yieldedLog,           \* every chunk yielded to the consumer, in order
  thrown,               \* where the error the generator threw came from
  lastError,            \* let lastError of _withRetry
  thrownError,          \* the error the generator threw to its consumer
  backoffLog,           \* every backoff timer _withRetry started, in order
  reportedBatches,      \* every "Error generating batch a-b" that was logged
  isRateLimitModalOpen, \* React state isRateLimitModalOpen
  toast,                \* React state toast
  saveDeckCalled,       \* saveDeck was called
  onDeckCreatedCalled,  \* onDeckCreated was called
  slideContent,         \* slide.content of a parsed slide
  pollinationsKey,      \* the access key handed to the transformation
  transformedContent,   \* let content of the final transformation
  previousContent,      \* content before the last pass
  transformPasses,      \* passes of the transformation over content
  transformThrew,       \* a pass threw
  chartAttributes,      \* the attributes the chart tag of a content was written with
  chartContent,         \* a content that holds a chart tag
  convertedContent,     \* content behind the last conversion of its chart tags
  unconvertedContent,   \* content before the last conversion
  convertPasses,        \* conversions run over content
  nestedContent,        \* unconvertedContent behind the conversion nested in restoreImages
  bufferShape,          \* what a buffer was put together from
  bufferText,           \* the buffer
  bufferFlag,           \* isStreamComplete of the call
  bufferResult,         \* what parseLiveStream returned for the buffer
  bufferParsed,         \* parseLiveStream was called on the buffer
  restyleSlides,        \* slides, the deck restyleDeck was given
  restyleI,             \* let i of the loop of restyleDeck
  restylePc,            \* where restyleDeck is
  restyleAttempt,       \* let i of _withRetry inside restyleDeck
  restyledSlidesAccumulator, \* const restyledSlidesAccumulator
  batchOutcomes,        \* how every batch of restyleDeck ended, in order
  finalSlides,          \* what restyleDeck returned
  currentView,          \* React state currentView of App
  activeDeckId,         \* React state activeDeckId of App, 0 for null
  deck,                 \* React state deck of App
  activeSlideIndex,     \* React state activeSlideIndex of App
  isWorking,            \* React state isWorking of App
  isThemePickerOpen,    \* React state isThemePickerOpen of App
  selectedElements,     \* EditorCanvas holds a selection
  croppingElement,      \* React state croppingElement of EditorCanvas is set
  storedDecks,          \* the decks of the database: slides of each id
  createsPending,       \* handleCreateNew calls that await saveDeck
  loadsPending,         \* loadDeck calls that await getDeckById
  deletesPending,       \* handleDeleteSlide calls that await saveDeck
  restylesPending,      \* handleApplyTheme calls that await restyleDeck
  cropsPending,         \* handleApplyCrop calls that have not finished
  imageMode,            \* who tokenizes the images: editContent or restyleDeck
  imageSlides,          \* the contents handed in, as written
  cleanedSlides,        \* the contents with placeholders for the images
  imageMapEntries,      \* the entries of the image map, in insertion order
  restoredSlides,       \* the contents behind restoreImages
  imagePc               \* how far the tokenization has come

parserVars == <<script, turn, offset, step, fullResponse, parsedBuffer, chunkIsComplete,
                generatedSlides, inProgressSlideHtml, caught,
                fencedAt, fencedMarker, fencedResponse, fencedResult>>

genVars == <<outlineLength, loopI, genPc, abandoned, attempt, sendPending, openStreams,
             drainedTurns, chunksLeft, sentLog, yieldedLog, thrown, lastError,
             thrownError, backoffLog, reportedBatches>>

callerVars == <<isRateLimitModalOpen, toast, saveDeckCalled, onDeckCreatedCalled>>

transformVars == <<slideContent, pollinationsKey, transformedContent, previousContent,
                   transformPasses, transformThrew>>

chartVars == <<chartAttributes, chartContent, convertedContent, unconvertedContent,
               convertPasses, nestedContent>>

bufferVars == <<bufferShape, bufferText, bufferFlag, bufferResult, bufferParsed>>

restyleVars == <<restyleSlides, restyleI, restylePc, restyleAttempt,
                 restyledSlidesAccumulator, batchOutcomes, finalSlides>>

deckViewVars == <<currentView, activeDeckId, deck, activeSlideIndex, isWorking,
                  isThemePickerOpen, selectedElements, croppingElement, storedDecks,
                  createsPending, loadsPending, deletesPending, restylesPending,
                  cropsPending>>

imageVars == <<imageMode, imageSlides, cleanedSlides, imageMapEntries, restoredSlides,
               imagePc>>

vars == <<parserVars, genVars, callerVars, transformVars, chartVars, bufferVars,
          restyleVars, deckViewVars, imageVars>>

fenceVars == <<fencedAt, fencedMarker, fencedResponse, fencedResult>>

NoResult == [completeSlides |-> <<>>, inProgressHtml |-> <<>>, threw |-> FALSE]

\* an error object, as far as the code looks at it: whether its message
\* includes "429" and whether its code == 429
Error(message429, code429) ==
  [defined |-> TRUE, message429 |-> message429, code429 |-> code429]

Errors == {Error(m, c) : m \in BOOLEAN, c \in BOOLEAN}

\* no error: lastError before the first catch, the result of a call that
\* resolved
NoError == [defined |-> FALSE, message429 |-> FALSE, code429 |-> FALSE]

\* no content is being transformed
\* ------------------------------------------------------------------------
\* GeminiService.restyleDeck (services/gemini.ts)
\* ------------------------------------------------------------------------

RESTYLE_BATCH_SIZE == 4

\* the address of an image: one of the deck, or a placeholder
DeckSrc(n) == [placeholder |-> FALSE, n |-> n]
PlaceholderSrc(n) == [placeholder |-> TRUE, n |-> n]

\* a content is a list of pieces: markup, written by the author of slide
\* `of' or by the model for that slide, and img tags
Markup(by, of) == [kind |-> "markup", by |-> by, of |-> of, src |-> DeckSrc(0)]
Img(src) == [kind |-> "img", by |-> "deck", of |-> 0, src |-> src]

Title(by, of) == [by |-> by, of |-> of]

\* the deck restyleDeck is given: slide k has the id k, every other slide
\* holds an image (none of the contents holds an image address of the
\* generator or a chart tag, which restoreImages would rewrite too)
OriginalContent(k) ==
  IF k % 2 = 1 THEN <<Markup("deck", k), Img(DeckSrc(k))>> ELSE <<Markup("deck", k)>>

OriginalSlide(k) ==
  [id |-> k, title |-> Title("deck", k), content |-> OriginalContent(k)]

Deck(n) == [k \in 1..n |-> OriginalSlide(k)]

RECURSIVE TokenizeContent(_, _)
\* slide.content.replace(/<img ... src=...>/gi, ...): every img tag is given
\* the placeholder of the counter, which then goes up
TokenizeContent(content, counter) ==
  IF content = <<>> THEN <<>>
  ELSE IF Head(content).kind = "img"
    THEN <<Img(PlaceholderSrc(counter))>> \o TokenizeContent(Tail(content), counter + 1)
  ELSE <<Head(content)>> \o TokenizeContent(Tail(content), counter)

ImagesOf(content) == SelectSeq(content, LAMBDA piece : piece.kind = "img")

RECURSIVE ImagesBefore(_, _)
\* globalImgCounter when slide k is reached
ImagesBefore(slides, k) ==
  IF k <= 1 THEN 0
  ELSE ImagesBefore(slides, k - 1) + Len(ImagesOf(slides[k - 1].content))

\* const slidesWithPlaceholders = slides.map(...)
slidesWithPlaceholders(slides) ==
  [k \in 1..Len(slides) |->
     [slides[k] EXCEPT !.content = TokenizeContent(@, ImagesBefore(slides, k))]]

RECURSIVE ImageMapFrom(_, _)
\* globalImageMap: entry n + 1 is the address placeholder n stands for
ImageMapFrom(slides, k) ==
  IF k > Len(slides) THEN <<>>
  ELSE [n \in 1..Len(ImagesOf(slides[k].content)) |-> ImagesOf(slides[k].content)[n].src]
       \o ImageMapFrom(slides, k + 1)

globalImageMap(slides) == ImageMapFrom(slides, 1)

\* restoreImages on a content: every placeholder of the map is replaced by
\* the address it stands for
restoreImages(content, imageMap) ==
  [p \in 1..Len(content) |->
     IF content[p].kind = "img" /\ content[p].src.placeholder
        /\ content[p].src.n < Len(imageMap)
     THEN Img(imageMap[content[p].src.n + 1])
     ELSE content[p]]

\* slidesWithPlaceholders.slice(i, i + BATCH_SIZE)
RestyleBatch(all, i) == Sub(all, i, i + RESTYLE_BATCH_SIZE)

\* batch.map((s) => ({ title: s.title, content: s.content }))
FallbackOf(batch) ==
  [k \in 1..Len(batch) |-> [title |-> batch[k].title, content |-> batch[k].content]]

\* what the model answers for a slide it was sent: its own title and
\* markup, the img tags kept
RestyledOf(slide) ==
  [title |-> Title("model", slide.id),
   content |-> <<Markup("model", slide.id)>> \o ImagesOf(slide.content)]

\* data.slides of an answer with the schema's structure: one restyled slide
\* per slide sent, or one less, or the last one twice
AnswerSlides(batch, count) ==
  [k \in 1..count |-> RestyledOf(batch[Min(k, Len(batch))])]

AnswerCounts(batch) == {Len(batch) - 1, Len(batch), Len(batch) + 1}

\* { ...originalSlide, title: restyledSlide.title, content: restored }
Merged(originalSlide, restyledSlide, imageMap) ==
  [originalSlide EXCEPT !.title = restyledSlide.title,
                        !.content = restoreImages(restyledSlide.content, imageMap)]

\* slides.map((originalSlide, i) => ...)
MergeSlides(slides, accumulator, imageMap) ==
  [k \in 1..Len(slides) |->
     IF k > Len(accumulator) THEN slides[k]
     ELSE Merged(slides[k], accumulator[k], imageMap)]

\* no deck: the value of const [deck, setDeck] = useState<Deck | null>(null)
NoDeck == [id |-> 0, slides |-> 0]

\* App as it is mounted, with an empty database
DeckViewAtRest ==
  /\ currentView = "dashboard"
  /\ activeDeckId = 0
  /\ deck = NoDeck
  /\ activeSlideIndex = 0
  /\ isWorking = FALSE
  /\ isThemePickerOpen = FALSE
  /\ selectedElements = FALSE
  /\ croppingElement = FALSE
  /\ storedDecks = <<>>
  /\ createsPending = {}
  /\ loadsPending = {}
  /\ deletesPending = {}
  /\ restylesPending = <<>>
  /\ cropsPending = 0

\* no content handed to editContent or restyleDeck
ImageAtRest ==
  /\ imageMode = "none"
  /\ imageSlides = <<>>
  /\ cleanedSlides = <<>>
  /\ imageMapEntries = <<>>
  /\ restoredSlides = <<>>
  /\ imagePc = "idle"

RestyleAtRest ==
  /\ restyleSlides = <<>>
  /\ restyleI = 0
  /\ restylePc = "idle"
  /\ restyleAttempt = 0
  /\ restyledSlidesAccumulator = <<>>
  /\ batchOutcomes = <<>>
  /\ finalSlides = <<>>


\* what precedes the open batch: nothing, a closed batch, a closed batch
\* whose slides array holds null, or a closed batch behind an unmatched "}";
\* slides is the list the batch's slides array holds
ClosedPart(kind, text, slides) == [kind |-> kind, text |-> text, slides |-> slides]

\* a buffer: the closed part, the candidates, and the tokens of the cut
\* slide's content when there is a cut slide
Shape(closed, candidates, cut, tokens) ==
  [closed |-> closed, candidates |-> candidates, cut |-> cut, tokens |-> tokens]

BufferAtRest ==
  /\ bufferShape = Shape(ClosedPart("none", <<>>, <<>>), <<>>, FALSE, <<>>)
  /\ bufferText = <<>>
  /\ bufferFlag = FALSE
  /\ bufferResult = NoResult
  /\ bufferParsed = FALSE

ChartAtRest ==
  /\ chartAttributes = <<>>
  /\ chartContent = <<>>
  /\ convertedContent = <<>>
  /\ unconvertedContent = <<>>
  /\ convertPasses = 0
  /\ nestedContent = <<>>

TransformAtRest ==
  /\ slideContent = <<>>
  /\ pollinationsKey = <<>>
  /\ transformedContent = <<>>
  /\ previousContent = <<>>
  /\ transformPasses = 0
  /\ transformThrew = FALSE

\* the caller's side of a run at rest
CallerAtRest ==
  /\ isRateLimitModalOpen = FALSE
  /\ toast = "none"
  /\ saveDeckCalled = FALSE
  /\ onDeckCreatedCalled = FALSE

\* generatePresentationStream called for an outline of n items: the
\* generator object exists, its body has not started
GenCreated(n) ==
  /\ outlineLength = n
  /\ loopI = 0
  /\ genPc = "start"
  /\ abandoned = FALSE
  /\ attempt = 0
  /\ sendPending = {}
  /\ openStreams = {}
  /\ drainedTurns = {}
  /\ chunksLeft = 0
  /\ sentLog = <<>>
  /\ yieldedLog = <<>>
  /\ thrown = "none"
  /\ lastError = NoError
  /\ thrownError = NoError
  /\ backoffLog = <<>>
  /\ reportedBatches = <<>>

\* handleFinalGeneration up to the first pull of the stream
Init ==
  /\ GenCreated(0)
  /\ CallerAtRest
  /\ TransformAtRest
  /\ ChartAtRest
  /\ BufferAtRest
  /\ RestyleAtRest
  /\ DeckViewAtRest
  /\ ImageAtRest
  /\ script \in Scripts
  /\ turn = 1
  /\ offset = 0
  /\ step = "generating_slides"
  /\ fullResponse = <<>>
  /\ parsedBuffer = <<>>
  /\ chunkIsComplete = FALSE
  /\ generatedSlides = <<>>
  /\ inProgressSlideHtml = <<>>
  /\ caught = "none"
  /\ fencedAt = -1
  /\ fencedMarker = <<>>
  /\ fencedResponse = <<>>
  /\ fencedResult = NoResult

\* isLastBatch of the turn a chunk belongs to
IsLastBatch(t) == t >= Len(script)

\* the turn the next chunk comes from: a drained turn is followed by the next
NextTurn ==
  IF turn <= Len(script) /\ offset >= Len(script[turn].text) THEN turn + 1 ELSE turn
NextOffset == IF NextTurn = turn THEN offset ELSE 0
\* the loop body behind the parse: the two state setters, or the catch block
\* when the parse threw
ShowParsed(r) ==
  IF r.threw
  THEN /\ caught' = "parser"
       /\ step' = "theme_selection"
       /\ UNCHANGED <<generatedSlides, inProgressSlideHtml>>
  ELSE /\ generatedSlides' = r.completeSlides
       /\ inProgressSlideHtml' = r.inProgressHtml
       /\ UNCHANGED <<caught, step>>

\* a chunk that would replace the buffer
KeepChunkOnly(buffer, text) == text
\* fullResponse += chunk.text
AppendChunk(buffer, text) == buffer \o text

\* one iteration of for await (const chunk of stream): the chunk holds the
\* next n characters of its turn
ReceiveChunk(n) ==
  /\ step = "generating_slides"
  /\ NextTurn <= Len(script)
  /\ NextOffset + n <= Len(script[NextTurn].text)
  /\ LET text == Sub(script[NextTurn].text, NextOffset, NextOffset + n)
         isComplete == IsLastBatch(NextTurn)
     IN /\ fullResponse' = AppendChunk(fullResponse, text)
        /\ parsedBuffer' = AppendChunk(fullResponse, text)
        /\ chunkIsComplete' = isComplete
        /\ ShowParsed(parseLiveStream(AppendChunk(fullResponse, text), isComplete))
  /\ turn' = NextTurn
  /\ offset' = NextOffset + n
  /\ UNCHANGED <<script, fenceVars, genVars, callerVars, transformVars, chartVars, bufferVars, restyleVars, deckViewVars, imageVars>>

\* the stream is exhausted: the loop is left
StreamDrained ==
  /\ step = "generating_slides"
  /\ NextTurn > Len(script)
  /\ step' = "stream_done"
  /\ UNCHANGED <<script, turn, offset, fullResponse, parsedBuffer, chunkIsComplete,
                 generatedSlides, inProgressSlideHtml, caught, fenceVars, genVars, callerVars, transformVars, chartVars, bufferVars, restyleVars, deckViewVars, imageVars>>

Markers == {Fence, FenceJson}

IsWellFormed == \A k \in 1..Len(script) : script[k].kind = "batch"

\* the same finished, well-formed stream, had the backend interleaved one
\* fence marker at position p of it
ReceiveFenced(p, marker) ==
  /\ step = "stream_done"
  /\ IsWellFormed
  /\ fencedAt = -1
  /\ p \in 0..Len(fullResponse)
  /\ fencedAt' = p
  /\ fencedMarker' = marker
  /\ fencedResponse' = Sub(fullResponse, 0, p) \o marker \o SubFrom(fullResponse, p)
  /\ fencedResult' = parseLiveStream(fencedResponse', chunkIsComplete)
  /\ UNCHANGED <<script, turn, offset, step, fullResponse, parsedBuffer, chunkIsComplete,
                 generatedSlides, inProgressSlideHtml, caught, genVars, callerVars, transformVars, chartVars, bufferVars, restyleVars, deckViewVars, imageVars>>

Next ==
  \/ \E n \in 1..MaxChunk : ReceiveChunk(n)
  \/ StreamDrained
  \/ \E p \in 0..Len(fullResponse), marker \in Markers : ReceiveFenced(p, marker)

Spec == Init /\ [][Next]_vars

\* ------------------------------------------------------------------------
\* generatePresentationStream and _withRetry (services/gemini.ts)
\* ------------------------------------------------------------------------

\* the parser side at rest, an outline of any length handed to the generator
GenInit ==
  /\ \E n \in 0..MaxOutline : GenCreated(n)
  /\ CallerAtRest
  /\ TransformAtRest
  /\ ChartAtRest
  /\ BufferAtRest
  /\ RestyleAtRest
  /\ DeckViewAtRest
  /\ ImageAtRest
  /\ script = <<>>
  /\ turn = 1
  /\ offset = 0
  /\ step = "generating_slides"
  /\ fullResponse = <<>>
  /\ parsedBuffer = <<>>
  /\ chunkIsComplete = FALSE
  /\ generatedSlides = <<>>
  /\ inProgressSlideHtml = <<>>
  /\ caught = "none"
  /\ fencedAt = -1
  /\ fencedMarker = <<>>
  /\ fencedResponse = <<>>
  /\ fencedResult = NoResult

\* the turn of the loop iteration with loop variable i, from 0
TurnOf(i) == i \div BATCH_SIZE

startSlide == loopI + 1

\* an end of the batch that is not clamped to the outline
endSlideUnclamped == loopI + BATCH_SIZE

endSlide == Min(loopI + BATCH_SIZE, outlineLength)

\* a flag that is raised on every batch
isLastBatchAlways == TRUE

\* "Calculate if this is the final batch in the loop"
isLastBatch == endSlide >= outlineLength

\* the consumer calls next(): the body starts, or resumes behind its yield
Pull ==
  /\ genPc \in {"start", "yielded"}
  /\ ~abandoned
  /\ genPc' = IF genPc = "start" THEN "loop" ELSE "streaming"
  /\ UNCHANGED <<outlineLength, abandoned, loopI, attempt, sendPending, openStreams,
                 drainedTurns, chunksLeft, sentLog, yieldedLog, thrown, lastError,
                 thrownError, backoffLog, reportedBatches, parserVars, callerVars, transformVars, chartVars, bufferVars, restyleVars, deckViewVars, imageVars>>

\* for (let i = 0; i < outline.length; i += BATCH_SIZE): the test, then the
\* body up to the call of _withRetry, or the end of the generator
LoopHead ==
  /\ genPc = "loop"
  /\ IF loopI < outlineLength
     THEN genPc' = "call" /\ attempt' = 0 /\ lastError' = NoError
     ELSE genPc' = "done" /\ UNCHANGED <<attempt, lastError>>
  /\ UNCHANGED <<outlineLength, abandoned, loopI, sendPending, openStreams, drainedTurns,
                 chunksLeft, sentLog, yieldedLog, thrown, thrownError, backoffLog,
                 reportedBatches, parserVars, callerVars, transformVars, chartVars, bufferVars, restyleVars, deckViewVars, imageVars>>

\* a catch block that logs the batch and goes on with the next one
CatchBatchErrorContinues(error, site) ==
  /\ reportedBatches' = Append(reportedBatches,
                               [startSlide |-> startSlide, endSlide |-> endSlide])
  /\ loopI' = loopI + BATCH_SIZE
  /\ genPc' = "loop"
  /\ UNCHANGED <<thrownError, thrown>>

\* catch (error) { console.error(`Error generating batch a-b:`); throw error }
CatchBatchError(error, site) ==
  /\ reportedBatches' = Append(reportedBatches,
                               [startSlide |-> startSlide, endSlide |-> endSlide])
  /\ thrownError' = error
  /\ thrown' = site
  /\ genPc' = "failed"
  /\ UNCHANGED loopI

\* new Error(`AI service failed after 3 attempts. Last error: <message>`):
\* its message holds the last error's message, it has no code
TerminalError == Error(lastError.message429, FALSE)

\* _withRetry: for (let i = 0; i < maxRetries; i++) calls fn, which sends the
\* turn's message; behind the loop the terminal error is thrown
CallSend ==
  /\ genPc = "call"
  /\ IF attempt < maxRetries
     THEN /\ sentLog' = Append(sentLog, [turn |-> TurnOf(loopI), startSlide |-> startSlide,
                                         endSlide |-> endSlide, attempt |-> attempt])
          /\ sendPending' = sendPending \cup {TurnOf(loopI)}
          /\ genPc' = "awaitSend"
          /\ UNCHANGED <<thrown, thrownError, reportedBatches, loopI>>
     ELSE /\ CatchBatchError(TerminalError, "exhausted")
          /\ UNCHANGED <<sentLog, sendPending>>
  /\ UNCHANGED <<outlineLength, abandoned, attempt, openStreams, drainedTurns, chunksLeft,
                 yieldedLog, lastError, backoffLog, parserVars, callerVars, transformVars, chartVars, bufferVars, restyleVars, deckViewVars, imageVars>>

\* sendMessageStream resolves with a response stream of c chunks
SendResolves(c) ==
  /\ genPc = "awaitSend"
  /\ sendPending' = sendPending \ {TurnOf(loopI)}
  /\ openStreams' = openStreams \cup {TurnOf(loopI)}
  /\ chunksLeft' = c
  /\ genPc' = "streaming"
  /\ UNCHANGED <<outlineLength, abandoned, loopI, attempt, drainedTurns, sentLog, yieldedLog,
                 thrown, lastError, thrownError, backoffLog, reportedBatches,
                 parserVars, callerVars, transformVars, chartVars, bufferVars, restyleVars, deckViewVars, imageVars>>

\* a test that looks at the message only
IsRateLimitByMessage(error) == error.message429

\* (error.message && error.message.includes("429")) || error.code == 429
IsRateLimit(error) == error.message429 \/ error.code429

\* a backoff of one second whatever the attempt
BackoffConstant(i) == 1

\* setTimeout(res, 1000 * (i + 1)), in seconds
BackoffSeconds(i) == i + 1

\* sendMessageStream rejects: a rate-limit error is rethrown at once, any
\* other error starts the backoff timer
SendRejects(error) ==
  /\ genPc = "awaitSend"
  /\ sendPending' = sendPending \ {TurnOf(loopI)}
  /\ lastError' = error
  /\ IF IsRateLimit(error)
     THEN /\ CatchBatchError(error, "429")
          /\ UNCHANGED backoffLog
     ELSE /\ genPc' = "backoff"
          /\ backoffLog' = Append(backoffLog, [turn |-> TurnOf(loopI), attempt |-> attempt,
                                               seconds |-> BackoffSeconds(attempt)])
          /\ UNCHANGED <<thrown, thrownError, reportedBatches, loopI>>
  /\ UNCHANGED <<outlineLength, abandoned, attempt, openStreams, drainedTurns, chunksLeft,
                 sentLog, yieldedLog, parserVars, callerVars, transformVars, chartVars, bufferVars, restyleVars, deckViewVars, imageVars>>

\* the timer of 1000 * (i + 1) ms fires: the next iteration of _withRetry
BackoffElapsed ==
  /\ genPc = "backoff"
  /\ attempt' = attempt + 1
  /\ genPc' = "call"
  /\ UNCHANGED <<outlineLength, abandoned, loopI, sendPending, openStreams, drainedTurns,
                 chunksLeft, sentLog, yieldedLog, thrown, lastError, thrownError,
                 backoffLog, reportedBatches, parserVars, callerVars, transformVars, chartVars, bufferVars, restyleVars, deckViewVars, imageVars>>

\* for await (const chunk of responseStream): a chunk arrives and is
\* yielded if (chunk.text)
StreamChunk(hasText) ==
  /\ genPc = "streaming"
  /\ chunksLeft > 0
  /\ chunksLeft' = chunksLeft - 1
  /\ IF hasText
     THEN /\ yieldedLog' = Append(yieldedLog, [turn |-> TurnOf(loopI),
                                               isComplete |-> isLastBatch])
          /\ genPc' = "yielded"
     ELSE UNCHANGED <<yieldedLog, genPc>>
  /\ UNCHANGED <<outlineLength, abandoned, loopI, attempt, sendPending, openStreams,
                 drainedTurns, sentLog, thrown, lastError, thrownError, backoffLog,
                 reportedBatches, parserVars, callerVars, transformVars, chartVars, bufferVars, restyleVars, deckViewVars, imageVars>>

\* a for await that is left while the stream still holds chunks
TurnIsLeftEarly == genPc = "streaming"

\* the for await is over: the response stream has no chunk left
TurnIsOver == genPc = "streaming" /\ chunksLeft = 0

\* the response stream ends: the loop goes to its next iteration
StreamEnds ==
  /\ TurnIsOver
  /\ IF chunksLeft = 0
     THEN /\ openStreams' = openStreams \ {TurnOf(loopI)}
          /\ drainedTurns' = drainedTurns \cup {TurnOf(loopI)}
     ELSE UNCHANGED <<openStreams, drainedTurns>>
  /\ loopI' = loopI + BATCH_SIZE
  /\ genPc' = "loop"
  /\ UNCHANGED <<outlineLength, abandoned, attempt, sendPending, chunksLeft, sentLog,
                 yieldedLog, thrown, lastError, thrownError, backoffLog,
                 reportedBatches, parserVars, callerVars, transformVars, chartVars, bufferVars, restyleVars, deckViewVars, imageVars>>

\* a drain inside the retried function: its failure starts the next attempt
CatchStreamErrorRetries(error) ==
  /\ genPc' = "call"
  /\ UNCHANGED <<reportedBatches, thrownError, thrown, loopI>>

\* the for await over responseStream sits behind the await of _withRetry,
\* in the try block of the batch: what it throws goes to that catch block
CatchStreamError(error) == CatchBatchError(error, "stream")

\* the response stream throws while it is read: the catch block of the batch
StreamFails(error) ==
  /\ genPc = "streaming"
  /\ openStreams' = openStreams \ {TurnOf(loopI)}
  /\ CatchStreamError(error)
  /\ UNCHANGED <<outlineLength, abandoned, attempt, sendPending, drainedTurns, chunksLeft,
                 sentLog, yieldedLog, lastError, backoffLog, parserVars, callerVars, transformVars, chartVars, bufferVars, restyleVars, deckViewVars, imageVars>>

\* handleApiError: the modal opens and true is returned when the message
\* includes "429"
handleApiError(error) == error.message429

\* catch (e) of handleFinalGeneration: the modal or the toast, then back to
\* theme selection
CatchInCaller(e, site) ==
  /\ IF handleApiError(e)
     THEN isRateLimitModalOpen' = TRUE /\ UNCHANGED toast
     ELSE toast' = "Error generating presentation." /\ UNCHANGED isRateLimitModalOpen
  /\ step' = "theme_selection"
  /\ caught' = site

\* the pending next() of the for await rejects with what the generator threw
CatchGenError ==
  /\ genPc = "failed"
  /\ step = "generating_slides"
  /\ CatchInCaller(thrownError, "generator")
  /\ UNCHANGED <<script, turn, offset, fullResponse, parsedBuffer, chunkIsComplete, generatedSlides,
                 inProgressSlideHtml, fenceVars, genVars, saveDeckCalled,
                 onDeckCreatedCalled, transformVars, chartVars, bufferVars, restyleVars, deckViewVars, imageVars>>

\* a generator that swallows the return() of its consumer and goes on with
\* the next batch
ResumeOnReturn == "loop"

\* return() resumes the generator behind its yield with a return completion:
\* neither catch block sees it, the body is over
CloseOnReturn == "returned"

\* the consumer leaves the generator behind a chunk it was given. Either
\* the body of its for await threw, which calls return() on the generator
\* (and that on the response stream) and runs the catch block of
\* handleFinalGeneration, or it never calls next() again and the generator
\* stays suspended at its yield
Abandon(byReturn) ==
  /\ genPc = "yielded"
  /\ step = "generating_slides"
  /\ ~abandoned
  /\ abandoned' = TRUE
  /\ IF byReturn
     THEN /\ genPc' = CloseOnReturn
          /\ openStreams' = openStreams \ {TurnOf(loopI)}
          /\ CatchInCaller(Error(FALSE, FALSE), "body")
     ELSE UNCHANGED <<genPc, openStreams, step, caught, isRateLimitModalOpen, toast>>
  /\ UNCHANGED <<outlineLength, loopI, attempt, sendPending, drainedTurns, chunksLeft,
                 sentLog, yieldedLog, thrown, lastError, thrownError, backoffLog,
                 reportedBatches, script, turn, offset, fullResponse, parsedBuffer,
                 chunkIsComplete, generatedSlides, inProgressSlideHtml, fenceVars,
                 saveDeckCalled, onDeckCreatedCalled, transformVars, chartVars, bufferVars, restyleVars, deckViewVars, imageVars>>

\* a save that also follows a generator that threw
GenerationStopped == genPc \in {"done", "failed"}

\* the for await of handleFinalGeneration ended: the generator returned
GenerationDone == genPc = "done"

\* behind the loop: await saveDeck(newDeck), which resolves (NoError) or
\* rejects, then onDeckCreated
SaveDeck(result) ==
  /\ GenerationDone
  /\ step = "generating_slides"
  /\ ~saveDeckCalled
  /\ saveDeckCalled' = TRUE
  /\ IF result.defined
     THEN /\ CatchInCaller(result, "saveDeck")
          /\ UNCHANGED onDeckCreatedCalled
     ELSE /\ onDeckCreatedCalled' = TRUE
          /\ UNCHANGED <<step, caught, isRateLimitModalOpen, toast>>
  /\ UNCHANGED <<script, turn, offset, fullResponse, parsedBuffer, chunkIsComplete, generatedSlides,
                 inProgressSlideHtml, fenceVars, genVars, transformVars, chartVars, bufferVars, restyleVars, deckViewVars, imageVars>>

GenNext ==
  \/ Pull
  \/ LoopHead
  \/ CallSend
  \/ \E c \in 0..MaxStreamChunks : SendResolves(c)
  \/ \E error \in Errors : SendRejects(error)
  \/ BackoffElapsed
  \/ \E hasText \in BOOLEAN : StreamChunk(hasText)
  \/ StreamEnds
  \/ \E error \in Errors : StreamFails(error)
  \/ CatchGenError
  \/ \E byReturn \in BOOLEAN : Abandon(byReturn)
  \/ \E result \in Errors \cup {NoError} : SaveDeck(result)

GenSpec == GenInit /\ [][GenNext]_vars

\* ------------------------------------------------------------------------
\* The final transformation of a slide's content, run once and once more
\* ------------------------------------------------------------------------

\* what may follow /image/ in a content: every text of at most MaxRaw of
\* these characters
RawChars == {"x", "_", "%", "2", "0"}

RawTexts == UNION {[1..n -> RawChars] : n \in 0..MaxRaw}

UrlSchemes == {UrlHttp, <<"h", "t", "t", "p", "s">>, <<"H", "T", "T", "P", "S">>}

\* a slide content that holds one image address, bare or as the value of
\* an attribute
SlideContents ==
  {pre \o scheme \o UrlHost \o raw \o post :
     pre \in {<<>>, <<"<", QUOTE>>}, scheme \in UrlSchemes, raw \in RawTexts,
     post \in {<<>>, <<QUOTE, ">">>}}

AccessKeys == {<<>>, <<"K">>}

\* the parser and the generator at rest, a content and a key drawn
TransformInit ==
  /\ GenCreated(0)
  /\ CallerAtRest
  /\ ChartAtRest
  /\ BufferAtRest
  /\ RestyleAtRest
  /\ DeckViewAtRest
  /\ ImageAtRest
  /\ script = <<>>
  /\ turn = 1
  /\ offset = 0
  /\ step = "generating_slides"
  /\ fullResponse = <<>>
  /\ parsedBuffer = <<>>
  /\ chunkIsComplete = FALSE
  /\ generatedSlides = <<>>
  /\ inProgressSlideHtml = <<>>
  /\ caught = "none"
  /\ fencedAt = -1
  /\ fencedMarker = <<>>
  /\ fencedResponse = <<>>
  /\ fencedResult = NoResult
  /\ slideContent \in SlideContents
  /\ pollinationsKey \in AccessKeys
  /\ transformedContent = slideContent
  /\ previousContent = slideContent
  /\ transformPasses = 0
  /\ transformThrew = FALSE

\* content = transformPollinationsURLs(content, key), once r is its outcome
Transformed(r) ==
  IF r.threw
  THEN transformThrew' = TRUE /\ UNCHANGED <<transformedContent, previousContent>>
  ELSE /\ transformedContent' = r.text
       /\ previousContent' = transformedContent
       /\ UNCHANGED transformThrew

\* the transformation is run on the content, then on its own result
ApplyTransform ==
  /\ transformPasses < 2
  /\ ~transformThrew
  /\ transformPasses' = transformPasses + 1
  /\ Transformed(transformPollinationsURLs(transformedContent, pollinationsKey))
  /\ UNCHANGED <<slideContent, pollinationsKey, parserVars, genVars, callerVars,
                 chartVars, bufferVars, restyleVars, deckViewVars, imageVars>>

TransformNext == ApplyTransform

TransformSpec == TransformInit /\ [][TransformNext]_vars

\* ------------------------------------------------------------------------
\* convertQuickChartTags (services/streamParser.ts)
\* ------------------------------------------------------------------------
APOS == "'"

ChartOpen == <<"<", "q", "u", "i", "c", "k", "c", "h", "a", "r", "t">>
ImgOpen == <<"<", "i", "m", "g", " ", "s", "r", "c", "=", QUOTE, "h", "t", "t", "p", "s", ":", "/", "/", "q", "u", "i", "c", "k", "c", "h", "a", "r", "t", ".", "i", "o", "/", "c", "h", "a", "r", "t", "?", "c", "=">>
QuotEntity == <<"&", "q", "u", "o", "t", ";">>
KeyConfig == <<"c", "o", "n", "f", "i", "g">>

\* the class \w
WordChars ==
  {Ascii[n + 1] : n \in (48..57) \cup (65..90) \cup (97..122)} \cup {"_"}

\* the class [\w-]
IsKeyChar(c) == c \in WordChars \/ c = "-"

\* is there a match of /<quickchart([\s\S]+?)>/ at p: the opener, at least
\* one character of the group, then a ">"
ChartTagAt(s, p) ==
  /\ StartsAt(s, ChartOpen, p)
  /\ \E e \in (p + Len(ChartOpen) + 1)..(Len(s) - 1) : s[e + 1] = ">"

\* the position of the ">" that ends the match at p (the group is lazy)
ChartTagEnd(s, p) ==
  MinOf({e \in (p + Len(ChartOpen) + 1)..(Len(s) - 1) : s[e + 1] = ">"})

\* the first match at or behind position from, -1 when there is none
NextChartTag(s, from) ==
  IF \E p \in from..(Len(s) - 1) : ChartTagAt(s, p)
  THEN MinOf({p \in from..(Len(s) - 1) : ChartTagAt(s, p)})
  ELSE -1

\* attributesString.replace(/\\"/g, '"').replace(/\\'/g, "'")
CleanAttributes(attributesString) ==
  ReplaceAll(ReplaceAll(attributesString, <<BSL, QUOTE>>, <<QUOTE>>),
             <<BSL, APOS>>, <<APOS>>)

\* the end of the longest run of [\w-] that starts at a
KeyEnd(s, a) == MinOf({b \in a..Len(s) : b = Len(s) \/ ~IsKeyChar(s[b + 1])})

\* the position of the quote that opens the value of an attribute whose
\* name ends at b: behind \s*=\s*, -1 when that is not what follows
ValueQuote(s, b) ==
  IF At(s, SkipSpace(s, b)) = "=" /\ At(s, SkipSpace(s, SkipSpace(s, b) + 1)) \in {QUOTE, APOS}
  THEN SkipSpace(s, SkipSpace(s, b) + 1) ELSE -1

\* the position of the quote that closes the value opened at u (the value
\* is lazy, \2 is the opening quote), -1 when there is none
ClosingQuote(s, u) ==
  IF \E v \in (u + 1)..(Len(s) - 1) : s[v + 1] = s[u + 1]
  THEN MinOf({v \in (u + 1)..(Len(s) - 1) : s[v + 1] = s[u + 1]})
  ELSE -1

\* is there a match of /([\w-]+)\s*=\s*(["'])([\s\S]*?)\2/ at a
AttributeAt(s, a) ==
  /\ IsKeyChar(At(s, a))
  /\ ValueQuote(s, KeyEnd(s, a)) # -1
  /\ ClosingQuote(s, ValueQuote(s, KeyEnd(s, a))) # -1

\* attributeRegex.exec from lastIndex on: where the next match starts, -1
\* for null
NextAttribute(s, lastIndex) ==
  IF \E a \in lastIndex..(Len(s) - 1) : AttributeAt(s, a)
  THEN MinOf({a \in lastIndex..(Len(s) - 1) : AttributeAt(s, a)})
  ELSE -1

\* attributes[key] = value on the object kept as the list of its entries in
\* the order for..in visits them: a key already present keeps its place
\* (no key drawn below is an integer, which for..in would visit first)
SetAttribute(attributes, key, value) ==
  IF \E n \in 1..Len(attributes) : attributes[n].key = key
  THEN [n \in 1..Len(attributes) |->
          IF attributes[n].key = key THEN [key |-> key, value |-> value]
          ELSE attributes[n]]
  ELSE Append(attributes, [key |-> key, value |-> value])

RECURSIVE ReadAttributes(_, _, _)

\* the body of the while loop for the match at a, whose value is quoted at
\* u .. v, and the rest of the loop
ReadAttributeAt(s, a, u, v, attributes) ==
  ReadAttributes(s, v + 1,
                 SetAttribute(attributes, Sub(s, a, KeyEnd(s, a)), Sub(s, u + 1, v)))

\* the same, the match being the next one from lastIndex on
ReadNextAttribute(s, a, attributes) ==
  IF a = -1 THEN attributes
  ELSE ReadAttributeAt(s, a, ValueQuote(s, KeyEnd(s, a)),
                       ClosingQuote(s, ValueQuote(s, KeyEnd(s, a))), attributes)

\* while ((attrMatch = attributeRegex.exec(...)) !== null)
ReadAttributes(s, lastIndex, attributes) ==
  ReadNextAttribute(s, NextAttribute(s, lastIndex), attributes)

\* attributes.config: the value, <<>> standing also for undefined (both are
\* falsy)
ConfigOf(attributes) ==
  IF \E n \in 1..Len(attributes) : attributes[n].key = KeyConfig
  THEN attributes[CHOOSE n \in 1..Len(attributes) : attributes[n].key = KeyConfig].value
  ELSE <<>>

\* attributes.config.replaceAll("'", '"')
ApostrophesToQuotes(text) ==
  [k \in 1..Len(text) |-> IF text[k] = APOS THEN QUOTE ELSE text[k]]

RECURSIVE OtherAttributes(_, _)
\* for (const key in attributes) if (key !== "config") imgTag += ` key="value"`
\* with the double quotes of the value written &quot;
OtherAttributes(attributes, n) ==
  IF n > Len(attributes) THEN <<>>
  ELSE (IF attributes[n].key = KeyConfig THEN <<>>
        ELSE <<" ">> \o attributes[n].key \o <<"=", QUOTE>>
             \o ReplaceAll(attributes[n].value, <<QUOTE>>, QuotEntity) \o <<QUOTE>>)
       \o OtherAttributes(attributes, n + 1)

\* the callback of replace once the attributes are read
ChartReplacement(match, attributes) ==
  IF ConfigOf(attributes) = <<>> THEN match
  ELSE ImgOpen \o encodeURIComponent(ApostrophesToQuotes(ConfigOf(attributes)))
       \o <<QUOTE>> \o OtherAttributes(attributes, 1) \o <<">">>

\* the callback of replace for the match s[p .. e]
ChartCallback(s, p, e) ==
  ChartReplacement(Sub(s, p, e + 1),
                   ReadAttributes(CleanAttributes(Sub(s, p + Len(ChartOpen), e)), 0, <<>>))

RECURSIVE ConvertFrom(_, _)

\* the replacement of the match at p and of the matches behind it
ConvertAt(s, from, p, e) ==
  Sub(s, from, p) \o ChartCallback(s, p, e) \o ConvertFrom(s, e + 1)

\* the same, the match being the next one from position from on
ConvertNext(s, from, p) ==
  IF p = -1 THEN SubFrom(s, from) ELSE ConvertAt(s, from, p, ChartTagEnd(s, p))

\* htmlString.replace(quickchartTagRegex, callback) from position from on
ConvertFrom(s, from) == ConvertNext(s, from, NextChartTag(s, from))

convertQuickChartTags(htmlString) == ConvertFrom(htmlString, 0)

\* ------------------------------------------------------------------------
\* The transformations nested in GeminiService.restoreImages
\* ------------------------------------------------------------------------

\* "<img src=https://quickchart.io/chart?c=": the opening of the nested
\* function, which puts no quote in front of the address
NestedImgOpen == SubSeq(ImgOpen, 1, 9) \o SubSeq(ImgOpen, 11, Len(ImgOpen))

RECURSIVE NestedOtherAttributes(_, _)
\* for (const key in attributes) if (key !== "config") imgTag += ` key=value`
\* the value as it was read, neither quoted nor escaped
NestedOtherAttributes(attributes, n) ==
  IF n > Len(attributes) THEN <<>>
  ELSE (IF attributes[n].key = KeyConfig THEN <<>>
        ELSE <<" ">> \o attributes[n].key \o <<"=">> \o attributes[n].value)
       \o NestedOtherAttributes(attributes, n + 1)

\* the callback of replace once the attributes are read
NestedChartReplacement(match, attributes) ==
  IF ConfigOf(attributes) = <<>> THEN match
  ELSE NestedImgOpen \o encodeURIComponent(ApostrophesToQuotes(ConfigOf(attributes)))
       \o NestedOtherAttributes(attributes, 1) \o <<">">>

\* the callback of replace for the match s[p .. e]
NestedChartCallback(s, p, e) ==
  NestedChartReplacement(Sub(s, p, e + 1),
                         ReadAttributes(CleanAttributes(Sub(s, p + Len(ChartOpen), e)), 0, <<>>))

RECURSIVE NestedConvertFrom(_, _)

\* the replacement of the match at p and of the matches behind it
NestedConvertAt(s, from, p, e) ==
  Sub(s, from, p) \o NestedChartCallback(s, p, e) \o NestedConvertFrom(s, e + 1)

\* the same, the match being the next one from position from on
NestedConvertNext(s, from, p) ==
  IF p = -1 THEN SubFrom(s, from) ELSE NestedConvertAt(s, from, p, ChartTagEnd(s, p))

\* htmlString.replace(quickchartTagRegex, callback) from position from on
NestedConvertFrom(s, from) == NestedConvertNext(s, from, NextChartTag(s, from))

\* function convertQuickChartTags(htmlString) of restoreImages
NestedConvertQuickChartTags(htmlString) == NestedConvertFrom(htmlString, 0)

\* function transformPollinationsURLs(input) of restoreImages: the exported
\* replacement with the access key of the constants
NestedTransformPollinationsURLs(input, publicKey) ==
  ReplaceUrlsFrom(input, 0, publicKey)


\* ------------------------------------------------------------------------
\* The image placeholders of editContent and restyleDeck
\* ------------------------------------------------------------------------
ImgTagOpen == <<"<", "i", "m", "g">>
SrcEquals == <<"s", "r", "c", "=">>
Https == <<"h", "t", "t", "p", "s">>
PlaceholderBase == <<"h", "t", "t", "p", "s", ":", "/", "/", "p", "l", "a", "c", "e", "h", "o", "l", "d", "e", "r", ".", "i", "m", "g", "/">>
EditId == <<"i", "d", "-">>
GlobalId == <<"g", "l", "o", "b", "a", "l", "-", "i", "d", "-">>

\* ${counter}: the decimal digits of a counter below 100
CounterText(n) ==
  IF n < 10 THEN <<Ascii[n + 49]>>
  ELSE <<Ascii[(n \div 10) + 49], Ascii[(n % 10) + 49]>>

\* the first position at or behind a of a character of chars, -1 when there
\* is none
FirstOf(s, a, chars) ==
  IF \E e \in a..(Len(s) - 1) : s[e + 1] \in chars
  THEN MinOf({e \in a..(Len(s) - 1) : s[e + 1] \in chars})
  ELSE -1

\* can src=["']([^"']+)["'][^>]*> match at j: the attribute name whatever
\* its case, a quote, one character or more that are no quote, a quote, and
\* a ">" somewhere behind it
SrcAt(s, j) ==
  /\ StartsAtAnyCase(s, SrcEquals, j)
  /\ At(s, j + 4) \in {QUOTE, APOS}
  /\ FirstOf(s, j + 5, {QUOTE, APOS}) > j + 5
  /\ FirstOf(s, FirstOf(s, j + 5, {QUOTE, APOS}) + 1, {">"}) # -1

\* where [^>]+ has to stop at the latest, the match starting at p: the
\* first ">" behind <img, the end of the text when there is none
TagLimit(s, p) ==
  IF FirstOf(s, p + 4, {">"}) = -1 THEN Len(s) ELSE FirstOf(s, p + 4, {">"})

\* is there a match of /<img[^>]+src=["']([^"']+)["'][^>]*>/i at p
ImgTagAt(s, p) ==
  /\ StartsAtAnyCase(s, ImgTagOpen, p)
  /\ \E j \in (p + 5)..TagLimit(s, p) : SrcAt(s, j)

\* where src= stands in the match at p: [^>]+ is greedy, so the last place
\* that lets the rest match
SrcStart(s, p) ==
  CHOOSE j \in (p + 5)..TagLimit(s, p) :
    /\ SrcAt(s, j)
    /\ \A i \in (j + 1)..TagLimit(s, p) : ~SrcAt(s, i)

\* the first match at or behind position from, -1 when there is none
NextImgTag(s, from) ==
  IF \E p \in from..(Len(s) - 1) : ImgTagAt(s, p)
  THEN MinOf({p \in from..(Len(s) - 1) : ImgTagAt(s, p)})
  ELSE -1

\* match.replace(src, placeholder): the first occurrence of a text replaced
\* (no placeholder holds a "$")
ReplaceFirst(s, pat, rep) ==
  IF IndexOf(s, pat) = -1 THEN s
  ELSE Sub(s, 0, IndexOf(s, pat)) \o rep \o SubFrom(s, IndexOf(s, pat) + Len(pat))

\* the callback of html.replace for a match and its group: st holds the
\* text written so far, the counter and the entries of the map; onlyOther
\* is the test !src.startsWith("https") of replaceImagesWithPlaceholders,
\* which restyleDeck does not make
ImageCallback(match, src, st, id, onlyOther) ==
  IF onlyOther /\ StartsAt(src, Https, 0)
  THEN [st EXCEPT !.out = @ \o match]
  ELSE [out |-> st.out \o ReplaceFirst(match, src, PlaceholderBase \o id \o CounterText(st.counter)),
        counter |-> st.counter + 1,
        map |-> Append(st.map, [placeholder |-> PlaceholderBase \o id \o CounterText(st.counter),
                                originalSrc |-> src])]

RECURSIVE TokenizeFrom(_, _, _, _, _)

\* the match at p, whose group is s[a .. b) and which ends with the ">" at
\* e, and the matches behind it
TokenizeMatch(s, from, p, a, b, e, st, id, onlyOther) ==
  TokenizeFrom(s, e + 1,
               ImageCallback(Sub(s, p, e + 1), Sub(s, a, b),
                             [st EXCEPT !.out = @ \o Sub(s, from, p)], id, onlyOther),
               id, onlyOther)

\* the same, src= standing at j
TokenizeSrc(s, from, p, j, st, id, onlyOther) ==
  TokenizeMatch(s, from, p, j + 5, FirstOf(s, j + 5, {QUOTE, APOS}),
                FirstOf(s, FirstOf(s, j + 5, {QUOTE, APOS}) + 1, {">"}), st, id, onlyOther)

\* the same, the match being the next one from position from on
TokenizeNext(s, from, p, st, id, onlyOther) ==
  IF p = -1 THEN [st EXCEPT !.out = @ \o SubFrom(s, from)]
  ELSE TokenizeSrc(s, from, p, SrcStart(s, p), st, id, onlyOther)

\* html.replace(/<img[^>]+src=["']([^"']+)["'][^>]*>/gi, callback) from
\* position from on
TokenizeFrom(s, from, st, id, onlyOther) ==
  TokenizeNext(s, from, NextImgTag(s, from), st, id, onlyOther)

\* replaceImagesWithPlaceholders(html): out is cleanedHtml, map is imageMap
replaceImagesWithPlaceholders(html) ==
  TokenizeFrom(html, 0, [out |-> <<>>, counter |-> 0, map |-> <<>>], EditId, TRUE)

RECURSIVE TokenizeSlides(_, _, _)
\* slides.map((slide) => ...) of restyleDeck from slide k on: one counter
\* and one map for all the slides
TokenizeSlide(slides, k, acc, st) ==
  TokenizeSlides(slides, k + 1,
                 [contents |-> Append(acc.contents, st.out), counter |-> st.counter,
                  map |-> st.map])

TokenizeSlides(slides, k, acc) ==
  IF k > Len(slides) THEN acc
  ELSE TokenizeSlide(slides, k, acc,
                     TokenizeFrom(slides[k], 0,
                                  [out |-> <<>>, counter |-> acc.counter, map |-> acc.map],
                                  GlobalId, FALSE))

\* the contents of slidesWithPlaceholders and globalImageMap of restyleDeck
TokenizeDeck(slides) ==
  TokenizeSlides(slides, 1, [contents |-> <<>>, counter |-> 0, map |-> <<>>])

RECURSIVE ExpandReplacement(_, _, _)
\* the text a replacement string stands for from position i on, the match
\* being matched: $$ is a "$", $& the match; the pattern has no group, so
\* $1 .. $99 stand for themselves (the patterns for the text in front of
\* and behind the match are not in the addresses drawn here)
ExpandReplacement(rep, i, matched) ==
  IF i >= Len(rep) THEN <<>>
  ELSE IF rep[i + 1] = "$" /\ At(rep, i + 1) = "$"
    THEN <<"$">> \o ExpandReplacement(rep, i + 2, matched)
  ELSE IF rep[i + 1] = "$" /\ At(rep, i + 1) = "&"
    THEN matched \o ExpandReplacement(rep, i + 2, matched)
  ELSE <<rep[i + 1]>> \o ExpandReplacement(rep, i + 1, matched)

\* restoredHtml.replace(regex, originalSrc): the pattern is the placeholder
\* with its special characters escaped, so it matches the placeholder text
\* wherever it stands
ReplacePlaceholder(restoredHtml, entry) ==
  ReplaceAll(restoredHtml, entry.placeholder,
             ExpandReplacement(entry.originalSrc, 0, entry.placeholder))

RECURSIVE RestoreEntries(_, _, _)
\* for (const [placeholder, originalSrc] of imageMap.entries()) from entry
\* n on
RestoreEntries(restoredHtml, entries, n) ==
  IF n > Len(entries) THEN restoredHtml
  ELSE RestoreEntries(ReplacePlaceholder(restoredHtml, entries[n]), entries, n + 1)

\* the access key of the constants
PublicKey == <<"K">>

\* the rest of restoreImages once the nested transformPollinationsURLs has
\* returned
RestoreTransformed(r, entries) ==
  IF r.threw THEN r
  ELSE [threw |-> FALSE,
        text |-> RestoreEntries(NestedConvertQuickChartTags(r.text), entries, 1)]

\* restoreImages(html, imageMap) on the text of a content
RestoreImagesIn(html, entries) ==
  RestoreTransformed(NestedTransformPollinationsURLs(html, PublicKey), entries)

\* let newHtml = data.html || currentContent
NewHtml(html, currentContent) == IF html = <<>> THEN currentContent ELSE html

\* ------------------------------------------------------------------------
\* Contents with images, tokenized and restored, the model returning what
\* it was sent
\* ------------------------------------------------------------------------

\* how the addresses of the images of a content are written
SrcStyles == {"name", "alt", "pattern", "https"}

\* the address of image k: a name of its own, the same behind "$&", or
\* behind "https:" for every other image
SrcOf(style, k) ==
  IF style = "pattern" THEN <<"$", "&", Ascii[k + 66]>>
  ELSE IF style = "https" /\ k % 2 = 0 THEN Https \o <<":", Ascii[k + 66]>>
  ELSE <<Ascii[k + 66]>>

\* the tag of image k; the style alt writes the address a second time, in
\* front of src
ImgTagText(style, k) ==
  ImgTagOpen
  \o (IF style = "alt" THEN <<" ", "a", "l", "t", "=", APOS>> \o SrcOf(style, k) \o <<APOS>>
      ELSE <<>>)
  \o <<" ">> \o SrcEquals \o <<QUOTE>> \o SrcOf(style, k) \o <<QUOTE, ">">>

RECURSIVE SlideImages(_, _, _, _, _)
\* the content of slide j of m: a text and the images k, k + 1, .. below n
\* that fall on the slide, in order
SlideImages(style, n, m, j, k) ==
  IF k >= n THEN <<"x">>
  ELSE (IF k % m = j - 1 THEN ImgTagText(style, k) ELSE <<>>)
       \o SlideImages(style, n, m, j, k + 1)

\* n images spread over m slides
ImageDeck(style, n, m) == [j \in 1..m |-> SlideImages(style, n, m, j, 0)]

ImageUnchanged == UNCHANGED <<parserVars, genVars, callerVars, transformVars, chartVars,
                              bufferVars, restyleVars, deckViewVars>>

\* everything else at rest; a content handed to editContent, or the slides
\* of a deck handed to restyleDeck
ImageInit ==
  /\ GenCreated(0)
  /\ CallerAtRest
  /\ TransformAtRest
  /\ ChartAtRest
  /\ BufferAtRest
  /\ RestyleAtRest
  /\ DeckViewAtRest
  /\ script = <<>>
  /\ turn = 1
  /\ offset = 0
  /\ step = "generating_slides"
  /\ fullResponse = <<>>
  /\ parsedBuffer = <<>>
  /\ chunkIsComplete = FALSE
  /\ generatedSlides = <<>>
  /\ inProgressSlideHtml = <<>>
  /\ caught = "none"
  /\ fencedAt = -1
  /\ fencedMarker = <<>>
  /\ fencedResponse = <<>>
  /\ fencedResult = NoResult
  /\ imageMode \in {"edit", "restyle"}
  /\ \E style \in SrcStyles, n \in 0..MaxImages, m \in 1..MaxImageSlides :
       /\ imageMode = "edit" => m = 1
       /\ imageSlides = ImageDeck(style, n, m)
  /\ cleanedSlides = <<>>
  /\ imageMapEntries = <<>>
  /\ restoredSlides = <<>>
  /\ imagePc = "start"

\* editContent up to the request: const { cleanedHtml, imageMap } =
\* this.replaceImagesWithPlaceholders(currentContent)
TokenizeForEdit ==
  /\ imagePc = "start"
  /\ imageMode = "edit"
  /\ cleanedSlides' = <<replaceImagesWithPlaceholders(imageSlides[1]).out>>
  /\ imageMapEntries' = replaceImagesWithPlaceholders(imageSlides[1]).map
  /\ imagePc' = "tokenized"
  /\ UNCHANGED <<imageMode, imageSlides, restoredSlides>>
  /\ ImageUnchanged

\* restyleDeck up to the first batch: step 1, the images of all the slides
\* tokenized
TokenizeForRestyle ==
  /\ imagePc = "start"
  /\ imageMode = "restyle"
  /\ cleanedSlides' = TokenizeDeck(imageSlides).contents
  /\ imageMapEntries' = TokenizeDeck(imageSlides).map
  /\ imagePc' = "tokenized"
  /\ UNCHANGED <<imageMode, imageSlides, restoredSlides>>
  /\ ImageUnchanged

\* the rest of editContent, data.html being the cleanedHtml that was sent
RestoreEdited ==
  /\ imagePc = "tokenized"
  /\ imageMode = "edit"
  /\ restoredSlides' =
       <<RestoreImagesIn(NewHtml(cleanedSlides[1], imageSlides[1]), imageMapEntries).text>>
  /\ imagePc' = IF RestoreImagesIn(NewHtml(cleanedSlides[1], imageSlides[1]), imageMapEntries).threw
                THEN "threw" ELSE "restored"
  /\ UNCHANGED <<imageMode, imageSlides, cleanedSlides, imageMapEntries>>
  /\ ImageUnchanged

\* step 4 of restyleDeck, every batch having returned the contents it was
\* sent
RestoreRestyled ==
  /\ imagePc = "tokenized"
  /\ imageMode = "restyle"
  /\ restoredSlides' =
       [k \in 1..Len(cleanedSlides) |-> RestoreImagesIn(cleanedSlides[k], imageMapEntries).text]
  /\ imagePc' = IF \E k \in 1..Len(cleanedSlides) :
                     RestoreImagesIn(cleanedSlides[k], imageMapEntries).threw
                THEN "threw" ELSE "restored"
  /\ UNCHANGED <<imageMode, imageSlides, cleanedSlides, imageMapEntries>>
  /\ ImageUnchanged

ImageNext ==
  \/ TokenizeForEdit
  \/ TokenizeForRestyle
  \/ RestoreEdited
  \/ RestoreRestyled

ImageSpec == ImageInit /\ [][ImageNext]_vars

\* ------------------------------------------------------------------------
\* The conversion of the chart tags of a content, run once and once more
\* ------------------------------------------------------------------------

\* values of an attribute: JSON with double quotes, with single quotes, with
\* escaped double quotes, a number, nothing, a text that holds a ">", and a
\* text that opens a chart tag of its own
AttributeValues ==
  {<<"{", QUOTE, "t", QUOTE, ":", "1", "}">>,
   <<"{", "'", "t", "'", ":", "1", "}">>,
   <<"{", BSL, QUOTE, "t", BSL, QUOTE, ":", "1", "}">>,
   <<"1">>,
   <<>>,
   <<"a", ">", "b">>,
   <<"<", "q", "u", "i", "c", "k", "c", "h", "a", "r", "t", " ", "c", "o", "n", "f", "i", "g", "=", "'", "2", "'">>}

\* key=value with either quote around the value
ChartAttributes ==
  {[key |-> k, quote |-> q, value |-> v] :
     k \in {KeyConfig, <<"a", "l", "t">>}, q \in {QUOTE, APOS}, v \in AttributeValues}

AttributeText(a) == <<" ">> \o a.key \o <<"=", a.quote>> \o a.value \o <<a.quote>>

RECURSIVE AttributesText(_)
AttributesText(as) ==
  IF as = <<>> THEN <<>> ELSE AttributeText(Head(as)) \o AttributesText(Tail(as))

\* the attribute lists of a chart tag: at most MaxAttributes attributes
AttributeLists == UNION {[1..n -> ChartAttributes] : n \in 1..MaxAttributes}

\* a content that holds one chart tag and a text behind it
ChartTagText(as) == ChartOpen \o AttributesText(as) \o <<">", "x">>

\* the generator, the caller and the other transformation at rest, the
\* attributes of a chart tag drawn
ChartInit ==
  /\ GenCreated(0)
  /\ CallerAtRest
  /\ TransformAtRest
  /\ script = <<>>
  /\ turn = 1
  /\ offset = 0
  /\ step = "generating_slides"
  /\ fullResponse = <<>>
  /\ parsedBuffer = <<>>
  /\ chunkIsComplete = FALSE
  /\ generatedSlides = <<>>
  /\ inProgressSlideHtml = <<>>
  /\ caught = "none"
  /\ fencedAt = -1
  /\ fencedMarker = <<>>
  /\ fencedResponse = <<>>
  /\ fencedResult = NoResult
  /\ BufferAtRest
  /\ RestyleAtRest
  /\ DeckViewAtRest
  /\ ImageAtRest
  /\ chartAttributes \in AttributeLists
  /\ chartContent = ChartTagText(chartAttributes)
  /\ convertedContent = chartContent
  /\ unconvertedContent = chartContent
  /\ convertPasses = 0
  /\ nestedContent = chartContent

\* content = convertQuickChartTags(content), on the content and then on
\* its own result; the content before the pass is also handed to the
\* function of the same name nested in restoreImages
ApplyConversion ==
  /\ convertPasses < 2
  /\ convertPasses' = convertPasses + 1
  /\ convertedContent' = convertQuickChartTags(convertedContent)
  /\ unconvertedContent' = convertedContent
  /\ nestedContent' = NestedConvertQuickChartTags(convertedContent)
  /\ UNCHANGED <<chartAttributes, chartContent, parserVars, genVars, callerVars,
                 transformVars, bufferVars, restyleVars, deckViewVars, imageVars>>

ChartNext == ApplyConversion

ChartSpec == ChartInit /\ [][ChartNext]_vars



\* ------------------------------------------------------------------------
\* App, DeckView and EditorCanvas (App.tsx, views/DeckView.tsx,
\* components/DeckView/EditorCanvas.tsx): the deck on screen, the active
\* slide and the operations that set isWorking.  A deck is its id and the
\* number of its slides.
\* ------------------------------------------------------------------------
LoadedDeck(id, slides) == [id |-> id, slides |-> slides]

DeckViewUnchanged == UNCHANGED <<parserVars, genVars, callerVars, transformVars, chartVars,
                                 bufferVars, restyleVars, imageVars>>

\* the database holds decks saved in earlier sessions (0 slides: no deck
\* has that id)
DeckViewInit ==
  /\ GenCreated(0)
  /\ CallerAtRest
  /\ TransformAtRest
  /\ ChartAtRest
  /\ BufferAtRest
  /\ RestyleAtRest
  /\ ImageAtRest
  /\ script = <<>>
  /\ turn = 1
  /\ offset = 0
  /\ step = "generating_slides"
  /\ fullResponse = <<>>
  /\ parsedBuffer = <<>>
  /\ chunkIsComplete = FALSE
  /\ generatedSlides = <<>>
  /\ inProgressSlideHtml = <<>>
  /\ caught = "none"
  /\ fencedAt = -1
  /\ fencedMarker = <<>>
  /\ fencedResponse = <<>>
  /\ fencedResult = NoResult
  /\ currentView = "dashboard"
  /\ activeDeckId = 0
  /\ deck = NoDeck
  /\ activeSlideIndex = 0
  /\ isWorking = FALSE
  /\ isThemePickerOpen = FALSE
  /\ selectedElements = FALSE
  /\ croppingElement = FALSE
  /\ storedDecks \in [1..MaxDeckIds -> 0..MaxSlides]
  /\ createsPending = {}
  /\ loadsPending = {}
  /\ deletesPending = {}
  /\ restylesPending = <<>>
  /\ cropsPending = 0

\* the calls that have not settled
InFlight ==
  Cardinality(createsPending) + Cardinality(loadsPending) + Cardinality(deletesPending)
  + Len(restylesPending) + cropsPending

\* App renders DeckView and DeckView gets past if (!deck): SlideNavigation
\* and EditorCanvas are rendered
EditorRendered == currentView = "deck" /\ activeDeckId # 0 /\ deck # NoDeck

\* activeSlideContent={deck.slides[activeSlideIndex].content}: reading
\* content of undefined throws TypeError and React unmounts the tree
RenderThrows == EditorRendered /\ activeSlideIndex >= deck.slides

\* the editor is on screen and nothing covers it
EditorShown ==
  EditorRendered /\ ~RenderThrows /\ ~isThemePickerOpen /\ ~croppingElement

\* the effect of EditorCanvas on [activeSlideIndex]: the selection and the
\* crop are dropped when the index changes
CleanupOnIndex(index) ==
  IF index # activeSlideIndex
  THEN selectedElements' = FALSE /\ croppingElement' = FALSE
  ELSE UNCHANGED <<selectedElements, croppingElement>>

\* handleCreateNew up to await saveDeck(newDeck), the deck getting a new id
handleCreateNew(id) ==
  /\ ~RenderThrows
  /\ currentView = "dashboard"
  /\ storedDecks[id] = 0
  /\ id \notin createsPending
  /\ InFlight < MaxInFlight
  /\ createsPending' = createsPending \cup {id}
  /\ UNCHANGED <<currentView, activeDeckId, deck, activeSlideIndex, isWorking,
                 isThemePickerOpen, selectedElements, croppingElement, storedDecks,
                 loadsPending, deletesPending, restylesPending, cropsPending>>
  /\ DeckViewUnchanged

\* saveDeck(newDeck) settles: the four setters, or the catch block
CreateSaved(id, saved) ==
  /\ ~RenderThrows
  /\ id \in createsPending
  /\ createsPending' = createsPending \ {id}
  /\ IF saved
     THEN /\ storedDecks' = [storedDecks EXCEPT ![id] = 1]
          /\ activeDeckId' = id
          /\ deck' = LoadedDeck(id, 1)
          /\ currentView' = "deck"
     ELSE UNCHANGED <<storedDecks, activeDeckId, deck, currentView>>
  /\ UNCHANGED <<activeSlideIndex, isWorking, isThemePickerOpen, selectedElements,
                 croppingElement, loadsPending, deletesPending, restylesPending,
                 cropsPending>>
  /\ DeckViewUnchanged

\* handleOpenDeck, called by Dashboard for a deck of the database
handleOpenDeck(id) ==
  /\ ~RenderThrows
  /\ currentView = "dashboard"
  /\ storedDecks[id] > 0
  /\ activeDeckId' = id
  /\ currentView' = "deck"
  /\ UNCHANGED <<deck, activeSlideIndex, isWorking, isThemePickerOpen, selectedElements,
                 croppingElement, storedDecks, createsPending, loadsPending,
                 deletesPending, restylesPending, cropsPending>>
  /\ DeckViewUnchanged

\* handleGoHome: DeckView and its EditorCanvas are unmounted
handleGoHome ==
  /\ ~RenderThrows
  /\ currentView = "deck"
  /\ ~isThemePickerOpen
  /\ ~croppingElement
  /\ currentView' = "dashboard"
  /\ activeDeckId' = 0
  /\ selectedElements' = FALSE
  /\ UNCHANGED <<deck, activeSlideIndex, isWorking, isThemePickerOpen, croppingElement,
                 storedDecks, createsPending, loadsPending, deletesPending,
                 restylesPending, cropsPending>>
  /\ DeckViewUnchanged

\* the effect of DeckView: if (!deck || deck.id !== deckId) loadDeck(), up
\* to await getDeckById(deckId)
loadDeck ==
  /\ ~RenderThrows
  /\ currentView = "deck"
  /\ activeDeckId # 0
  /\ (deck = NoDeck \/ deck.id # activeDeckId)
  /\ activeDeckId \notin loadsPending
  /\ InFlight < MaxInFlight
  /\ loadsPending' = loadsPending \cup {activeDeckId}
  /\ UNCHANGED <<currentView, activeDeckId, deck, activeSlideIndex, isWorking,
                 isThemePickerOpen, selectedElements, croppingElement, storedDecks,
                 createsPending, deletesPending, restylesPending, cropsPending>>
  /\ DeckViewUnchanged

\* getDeckById settles: setDeck(d) when a deck was found
LoadSettles(id, resolved) ==
  /\ ~RenderThrows
  /\ id \in loadsPending
  /\ loadsPending' = loadsPending \ {id}
  /\ IF resolved /\ storedDecks[id] > 0
     THEN deck' = LoadedDeck(id, storedDecks[id])
     ELSE UNCHANGED deck
  /\ UNCHANGED <<currentView, activeDeckId, activeSlideIndex, isWorking,
                 isThemePickerOpen, selectedElements, croppingElement, storedDecks,
                 createsPending, deletesPending, restylesPending, cropsPending>>
  /\ DeckViewUnchanged

\* onSlideClick={setActiveSlideIndex}, for a slide SlideNavigation shows
SlideClick(k) ==
  /\ EditorShown
  /\ k < deck.slides
  /\ activeSlideIndex' = k
  /\ CleanupOnIndex(k)
  /\ UNCHANGED <<currentView, activeDeckId, deck, isWorking, isThemePickerOpen,
                 storedDecks, createsPending, loadsPending, deletesPending,
                 restylesPending, cropsPending>>
  /\ DeckViewUnchanged

\* handleAddSlide
handleAddSlide ==
  /\ EditorShown
  /\ deck.slides < MaxSlides
  /\ deck' = LoadedDeck(deck.id, deck.slides + 1)
  /\ storedDecks' = [storedDecks EXCEPT ![deck.id] = deck.slides + 1]
  /\ activeSlideIndex' = (deck.slides + 1) - 1
  /\ CleanupOnIndex((deck.slides + 1) - 1)
  /\ UNCHANGED <<currentView, activeDeckId, isWorking, isThemePickerOpen,
                 createsPending, loadsPending, deletesPending, restylesPending,
                 cropsPending>>
  /\ DeckViewUnchanged

\* handleDeleteSlide up to await saveDeck(newDeck), for a slide
\* SlideNavigation shows
handleDeleteSlide(i) ==
  /\ EditorShown
  /\ i < deck.slides
  /\ InFlight < MaxInFlight
  /\ IF deck.slides <= 1
     THEN UNCHANGED <<deck, deletesPending>>
     ELSE /\ deck' = LoadedDeck(deck.id, deck.slides - 1)
          /\ deletesPending' = deletesPending
               \cup {[i |-> i, newDeck |-> LoadedDeck(deck.id, deck.slides - 1)]}
  /\ UNCHANGED <<currentView, activeDeckId, activeSlideIndex, isWorking,
                 isThemePickerOpen, selectedElements, croppingElement, storedDecks,
                 createsPending, loadsPending, restylesPending, cropsPending>>
  /\ DeckViewUnchanged

\* saveDeck(newDeck) of handleDeleteSlide settles: setActiveSlideIndex, or
\* the rejection nothing catches
DeleteSaved(p, saved) ==
  /\ ~RenderThrows
  /\ p \in deletesPending
  /\ deletesPending' = deletesPending \ {p}
  /\ IF saved
     THEN /\ storedDecks' = [storedDecks EXCEPT ![p.newDeck.id] = p.newDeck.slides]
          /\ activeSlideIndex' = Max(0, p.i - 1)
          /\ CleanupOnIndex(Max(0, p.i - 1))
     ELSE UNCHANGED <<storedDecks, activeSlideIndex, selectedElements, croppingElement>>
  /\ UNCHANGED <<currentView, activeDeckId, deck, isWorking, isThemePickerOpen,
                 createsPending, loadsPending, restylesPending, cropsPending>>
  /\ DeckViewUnchanged

\* the Theme button of the header: a toast while isWorking, the picker
\* otherwise
ThemeButton ==
  /\ ~RenderThrows
  /\ currentView = "deck"
  /\ ~isThemePickerOpen
  /\ ~croppingElement
  /\ ~isWorking
  /\ isThemePickerOpen' = TRUE
  /\ UNCHANGED <<currentView, activeDeckId, deck, activeSlideIndex, isWorking,
                 selectedElements, croppingElement, storedDecks, createsPending,
                 loadsPending, deletesPending, restylesPending, cropsPending>>
  /\ DeckViewUnchanged

\* onCloseThemePicker, by a click on the backdrop of the picker
onCloseThemePicker ==
  /\ EditorRendered
  /\ ~RenderThrows
  /\ isThemePickerOpen
  /\ isThemePickerOpen' = FALSE
  /\ UNCHANGED <<currentView, activeDeckId, deck, activeSlideIndex, isWorking,
                 selectedElements, croppingElement, storedDecks, createsPending,
                 loadsPending, deletesPending, restylesPending, cropsPending>>
  /\ DeckViewUnchanged

\* handleApplyTheme up to await restyleDeck, by a click on a theme of the
\* picker: if (isWorking || !deck) return
handleApplyTheme ==
  /\ EditorRendered
  /\ ~RenderThrows
  /\ isThemePickerOpen
  /\ ~isWorking
  /\ InFlight < MaxInFlight
  /\ isWorking' = TRUE
  /\ restylesPending' = Append(restylesPending, deck)
  /\ UNCHANGED <<currentView, activeDeckId, deck, activeSlideIndex, isThemePickerOpen,
                 selectedElements, croppingElement, storedDecks, createsPending,
                 loadsPending, deletesPending, cropsPending>>
  /\ DeckViewUnchanged

\* restyleDeck of the k-th pending call settles: the deck the handler was
\* created with gets the restyled slides and is set and saved, or the catch
\* block; then the finally block
ThemeSettles(k, restyled) ==
  /\ ~RenderThrows
  /\ k \in 1..Len(restylesPending)
  /\ restylesPending' = SubSeq(restylesPending, 1, k - 1)
                          \o SubSeq(restylesPending, k + 1, Len(restylesPending))
  /\ IF restyled
     THEN /\ deck' = restylesPending[k]
          /\ storedDecks' = [storedDecks EXCEPT
                               ![restylesPending[k].id] = restylesPending[k].slides]
     ELSE UNCHANGED <<deck, storedDecks>>
  /\ isWorking' = FALSE
  /\ isThemePickerOpen' = FALSE
  /\ UNCHANGED <<currentView, activeDeckId, activeSlideIndex, selectedElements,
                 croppingElement, createsPending, loadsPending, deletesPending,
                 cropsPending>>
  /\ DeckViewUnchanged

\* handleStageClick on an element of the slide: if (isWorking) return
SelectElement ==
  /\ EditorShown
  /\ ~isWorking
  /\ ~selectedElements
  /\ selectedElements' = TRUE
  /\ UNCHANGED <<currentView, activeDeckId, deck, activeSlideIndex, isWorking,
                 isThemePickerOpen, croppingElement, storedDecks, createsPending,
                 loadsPending, deletesPending, restylesPending, cropsPending>>
  /\ DeckViewUnchanged

\* the crop button of the toolbar of the selection, then Crop Image:
\* setCroppingElement({...})
EnterCrop ==
  /\ EditorShown
  /\ selectedElements
  /\ croppingElement' = TRUE
  /\ UNCHANGED <<currentView, activeDeckId, deck, activeSlideIndex, isWorking,
                 isThemePickerOpen, selectedElements, storedDecks, createsPending,
                 loadsPending, deletesPending, restylesPending, cropsPending>>
  /\ DeckViewUnchanged

\* handleApplyCrop up to await fetch(img.src)
handleApplyCrop ==
  /\ EditorRendered
  /\ ~RenderThrows
  /\ ~isThemePickerOpen
  /\ croppingElement
  /\ InFlight < MaxInFlight
  /\ isWorking' = TRUE
  /\ cropsPending' = cropsPending + 1
  /\ UNCHANGED <<currentView, activeDeckId, deck, activeSlideIndex, isThemePickerOpen,
                 selectedElements, croppingElement, storedDecks, createsPending,
                 loadsPending, deletesPending, restylesPending>>
  /\ DeckViewUnchanged

\* the crop ends, in image.onload, in image.onerror or in the catch block:
\* setIsWorking(false) and setCroppingElement(null)
CropSettles ==
  /\ ~RenderThrows
  /\ cropsPending > 0
  /\ cropsPending' = cropsPending - 1
  /\ isWorking' = FALSE
  /\ croppingElement' = FALSE
  /\ UNCHANGED <<currentView, activeDeckId, deck, activeSlideIndex, isThemePickerOpen,
                 selectedElements, storedDecks, createsPending, loadsPending,
                 deletesPending, restylesPending>>
  /\ DeckViewUnchanged

DeckViewNext ==
  \/ \E id \in 1..MaxDeckIds : handleCreateNew(id)
  \/ \E id \in 1..MaxDeckIds, saved \in BOOLEAN : CreateSaved(id, saved)
  \/ \E id \in 1..MaxDeckIds : handleOpenDeck(id)
  \/ handleGoHome
  \/ loadDeck
  \/ \E id \in 1..MaxDeckIds, resolved \in BOOLEAN : LoadSettles(id, resolved)
  \/ \E k \in 0..(MaxSlides - 1) : SlideClick(k)
  \/ handleAddSlide
  \/ \E i \in 0..(MaxSlides - 1) : handleDeleteSlide(i)
  \/ \E p \in deletesPending, saved \in BOOLEAN : DeleteSaved(p, saved)
  \/ ThemeButton
  \/ onCloseThemePicker
  \/ handleApplyTheme
  \/ \E k \in 1..MaxInFlight, restyled \in BOOLEAN : ThemeSettles(k, restyled)
  \/ SelectElement
  \/ EnterCrop
  \/ handleApplyCrop
  \/ CropSettles

DeckViewSpec == DeckViewInit /\ [][DeckViewNext]_vars

\* ------------------------------------------------------------------------
\* The callback of finalCompleteSlides.map in handleFinalGeneration
\* ------------------------------------------------------------------------

\* content = convertQuickChartTags(content) behind the first transformation,
\* which may have thrown
ConvertTransformed(r) ==
  IF r.threw THEN r ELSE [threw |-> FALSE, text |-> convertQuickChartTags(r.text)]

\* let content = slide.content, transformed and converted
FinalTransform(content, apiKey) ==
  ConvertTransformed(transformPollinationsURLs(content, apiKey))

\* ------------------------------------------------------------------------
\* What the stream holds, read off the script (not off the parser)
\* ------------------------------------------------------------------------
SlideValue(slide) ==
  JObj(<<[k |-> KeyTitle, val |-> JStr(slide.title)],
         [k |-> KeyContent, val |-> JStr(slide.content)]>>)

SlideValues(slides) == [k \in 1..Len(slides) |-> SlideValue(slides[k])]

Contains(s, pat) == IndexOf(s, pat) # -1

\* every character of every turn has been received
AllDelivered == NextTurn > Len(script)

\* the turn being received is a batch that is not closed yet
InOpenBatch ==
  /\ turn <= Len(script)
  /\ script[turn].kind = "batch"
  /\ offset > 0
  /\ offset < Len(script[turn].text)

BatchOpenLen == Len(<<"{">> \o Quoted(KeySlides) \o <<":", "[">>)

\* offsets, in the text of a batch, of its k-th slide object: of its opening
\* brace, behind its closing brace, of the first character of its content
\* string, and of the closing quote of that string
SlideEndOffset(slides, k) == BatchOpenLen + Len(EncodeSlides(SubSeq(slides, 1, k)))
SlideStartOffset(slides, k) == SlideEndOffset(slides, k) - Len(EncodeSlide(slides[k]))
ContentStartOffset(slides, k) ==
  SlideStartOffset(slides, k)
  + Len(<<"{">> \o Quoted(KeyTitle) \o <<":">> \o Quoted(slides[k].title) \o <<",">>
        \o Quoted(KeyContent) \o <<":", QUOTE>>)
ContentEndOffset(slides, k) == SlideEndOffset(slides, k) - 2

\* the slides of the turns before this one, and of this one once it is closed
RECURSIVE ClosedBatchSlides(_)
ClosedBatchSlides(n) ==
  IF n = 0 THEN <<>>
  ELSE ClosedBatchSlides(n - 1)
       \o (IF n < turn \/ offset >= Len(script[n].text)
           THEN SlideValues(script[n].slides) ELSE <<>>)

\* the slide objects of the open batch that are closed
OpenBatchClosedSlides ==
  IF InOpenBatch
  THEN SelectSeq(SlideValues(script[turn].slides),
                 LAMBDA v : \E k \in 1..Len(script[turn].slides) :
                              /\ v = SlideValue(script[turn].slides[k])
                              /\ SlideEndOffset(script[turn].slides, k) <= offset)
  ELSE <<>>

HasTitle(acc, v) ==
  \E j \in 1..Len(acc) : Get(acc[j], KeyTitle) = Get(v, KeyTitle)

RECURSIVE AppendNewTitles(_, _)
AppendNewTitles(acc, slides) ==
  IF slides = <<>> THEN acc
  ELSE AppendNewTitles(IF HasTitle(acc, Head(slides)) THEN acc ELSE Append(acc, Head(slides)),
                       Tail(slides))

\* every closed slide object received so far, in buffer order
AllClosedSlides == ClosedBatchSlides(Min(turn, Len(script))) \o OpenBatchClosedSlides

\* the same, a closed slide of the open batch counting only when its title
\* is new
ExpectedSlides ==
  AppendNewTitles(ClosedBatchSlides(Min(turn, Len(script))), OpenBatchClosedSlides)

\* the slide object being received, 0 when the stream is not inside one
OpenSlide ==
  IF InOpenBatch /\ \E k \in 1..Len(script[turn].slides) :
                      /\ SlideStartOffset(script[turn].slides, k) < offset
                      /\ offset < SlideEndOffset(script[turn].slides, k)
  THEN CHOOSE k \in 1..Len(script[turn].slides) :
         /\ SlideStartOffset(script[turn].slides, k) < offset
         /\ offset < SlideEndOffset(script[turn].slides, k)
  ELSE 0

\* the received part of the open slide's content string, still escaped
\* (empty when the stream is not inside a content string)
PartialContent ==
  IF OpenSlide # 0
     /\ ContentStartOffset(script[turn].slides, OpenSlide) <= offset
     /\ offset <= ContentEndOffset(script[turn].slides, OpenSlide)
  THEN Sub(script[turn].text, ContentStartOffset(script[turn].slides, OpenSlide), offset)
  ELSE <<>>

\* the longest prefix of the open slide's content that is wholly received
SeenContent ==
  LET content == script[turn].slides[OpenSlide].content
      whole == {m \in 0..Len(content) :
                  Len(EscapeJson(Sub(content, 0, m))) <= Len(PartialContent)}
  IN Sub(content, 0, CHOOSE m \in whole : \A n \in whole : n <= m)

\* the stream stops inside a content string of which a ">" is received
InContentAfterTag == IsWellFormed /\ Contains(PartialContent, <<">">>)

\* ------------------------------------------------------------------------
\* parseLiveStream on one buffer: closed objects, then an open batch whose
\* slides array holds closed candidates and, behind them, a slide that is
\* cut inside its content
\* ------------------------------------------------------------------------

\* a slide whose title and content hold a closing brace
SlideK == [title |-> <<"K", "}">>, content |-> <<"<", "b", ">", "}">>]

NullBatchText == <<"{">> \o Quoted(KeySlides) \o <<":", "[", "n", "u", "l", "l", "]", "}">>

ClosedParts ==
  {ClosedPart("none", <<>>, <<>>),
   ClosedPart("batch", EncodeBatch(<<SlideK>>), <<SlideValue(SlideK)>>),
   ClosedPart("nullMember", NullBatchText, <<JNull>>),
   ClosedPart("strayBrace", <<"}">> \o EncodeBatch(<<SlideK>>), <<SlideValue(SlideK)>>)}

\* a closed object in the open batch's slides array: its text and the value
\* the text is JSON for (Undefined when it is not JSON)
Candidate(kind, text, value) == [kind |-> kind, text |-> text, value |-> value]

SlideCandidateOf(slide) == Candidate("slide", EncodeSlide(slide), SlideValue(slide))

\* the four slides, a slide with an empty content, a slide without a title,
\* braces around something that is not JSON, and an object whose title and
\* content are numbers
Candidates ==
  {SlideCandidateOf(SlideA), SlideCandidateOf(SlideJ), SlideCandidateOf(SlideB),
   SlideCandidateOf(SlideK),
   Candidate("emptyContent",
             <<"{">> \o Quoted(KeyTitle) \o <<":">> \o Quoted(<<"B">>) \o <<",">>
                     \o Quoted(KeyContent) \o <<":", QUOTE, QUOTE, "}">>,
             JObj(<<[k |-> KeyTitle, val |-> JStr(<<"B">>)],
                    [k |-> KeyContent, val |-> JStr(<<>>)]>>)),
   Candidate("noTitle",
             <<"{">> \o Quoted(KeyContent) \o <<":">> \o Quoted(SlideA.content) \o <<"}">>,
             JObj(<<[k |-> KeyContent, val |-> JStr(SlideA.content)]>>)),
   Candidate("notJson", <<"{", "x", "}">>, Undefined),
   Candidate("numbers",
             <<"{">> \o Quoted(KeyTitle) \o <<":", "1", ",">>
                     \o Quoted(KeyContent) \o <<":", "2", "}">>,
             JObj(<<[k |-> KeyTitle, val |-> JNum(<<"1">>)],
                    [k |-> KeyContent, val |-> JNum(<<"2">>)]>>))}

CandidateLists == UNION {[1..n -> Candidates] : n \in 0..MaxCandidates}

\* what the content of the cut slide is made of: plain characters, the
\* escape sequences \" \n \\ and a closing div; text is what the stream
\* holds, decoded what JSON.parse makes of it
Token(text, decoded) == [text |-> text, decoded |-> decoded]

Tokens ==
  {Token(<<"x">>, <<"x">>), Token(<<"n">>, <<"n">>), Token(<<">">>, <<">">>),
   Token(<<BSL, QUOTE>>, <<QUOTE>>), Token(<<BSL, "n">>, <<NL>>),
   Token(<<BSL, BSL>>, <<BSL>>), Token(CloseDiv, CloseDiv)}

TokenLists == UNION {[1..n -> Tokens] : n \in 0..MaxFragment}

\* the buffers: every closed part with every list of candidates, and every
\* cut content behind one closed slide
Shapes ==
  {Shape(closed, candidates, FALSE, <<>>) :
     closed \in ClosedParts, candidates \in CandidateLists}
  \cup {Shape(ClosedPart("none", <<>>, <<>>), <<SlideCandidateOf(SlideA)>>, TRUE, tokens) :
          tokens \in TokenLists}

RECURSIVE CandidatesText(_)
CandidatesText(candidates) ==
  IF candidates = <<>> THEN <<>>
  ELSE Head(candidates).text
       \o (IF Len(candidates) > 1 THEN <<",">> ELSE <<>>)
       \o CandidatesText(Tail(candidates))

RECURSIVE TokensText(_)
TokensText(tokens) ==
  IF tokens = <<>> THEN <<>> ELSE Head(tokens).text \o TokensText(Tail(tokens))

RECURSIVE TokensDecoded(_)
TokensDecoded(tokens) ==
  IF tokens = <<>> THEN <<>> ELSE Head(tokens).decoded \o TokensDecoded(Tail(tokens))

\* the cut slide up to the opening quote of its content
CutSlideOpen ==
  <<",", "{">> \o Quoted(KeyTitle) \o <<":">> \o Quoted(<<"C">>) \o <<",">>
               \o Quoted(KeyContent) \o <<":", QUOTE>>

OpenBatchText(shape) ==
  <<"{">> \o Quoted(KeySlides) \o <<":", "[">> \o CandidatesText(shape.candidates)
  \o (IF shape.cut THEN CutSlideOpen \o TokensText(shape.tokens) ELSE <<>>)

ShapeText(shape) == shape.closed.text \o OpenBatchText(shape)

\* a buffer and a flag drawn, everything else at rest
BufferInit ==
  /\ GenCreated(0)
  /\ CallerAtRest
  /\ TransformAtRest
  /\ ChartAtRest
  /\ script = <<>>
  /\ turn = 1
  /\ offset = 0
  /\ step = "generating_slides"
  /\ fullResponse = <<>>
  /\ parsedBuffer = <<>>
  /\ chunkIsComplete = FALSE
  /\ generatedSlides = <<>>
  /\ inProgressSlideHtml = <<>>
  /\ caught = "none"
  /\ fencedAt = -1
  /\ fencedMarker = <<>>
  /\ fencedResponse = <<>>
  /\ fencedResult = NoResult
  /\ RestyleAtRest
  /\ DeckViewAtRest
  /\ ImageAtRest
  /\ bufferShape \in Shapes
  /\ bufferText = ShapeText(bufferShape)
  /\ bufferFlag \in BOOLEAN
  /\ bufferResult = NoResult
  /\ bufferParsed = FALSE

\* parseLiveStream(buffer, isStreamComplete)
ParseBuffer ==
  /\ ~bufferParsed
  /\ bufferParsed' = TRUE
  /\ bufferResult' = parseLiveStream(bufferText, bufferFlag)
  /\ UNCHANGED <<bufferShape, bufferText, bufferFlag, parserVars, genVars, callerVars,
                 transformVars, chartVars, restyleVars, deckViewVars, imageVars>>

BufferNext == ParseBuffer

BufferSpec == BufferInit /\ [][BufferNext]_vars


\* ------------------------------------------------------------------------
\* One call of restyleDeck
\* ------------------------------------------------------------------------

\* restyleDeck is called with a deck of at most MaxDeck slides; everything
\* else is at rest
RestyleInit ==
  /\ GenCreated(0)
  /\ DeckViewAtRest
  /\ ImageAtRest
  /\ CallerAtRest
  /\ TransformAtRest
  /\ ChartAtRest
  /\ BufferAtRest
  /\ script = <<>>
  /\ turn = 1
  /\ offset = 0
  /\ step = "generating_slides"
  /\ fullResponse = <<>>
  /\ parsedBuffer = <<>>
  /\ chunkIsComplete = FALSE
  /\ generatedSlides = <<>>
  /\ inProgressSlideHtml = <<>>
  /\ caught = "none"
  /\ fencedAt = -1
  /\ fencedMarker = <<>>
  /\ fencedResponse = <<>>
  /\ fencedResult = NoResult
  /\ \E n \in 0..MaxDeck : restyleSlides = Deck(n)
  /\ restyleI = 0
  /\ restylePc = "loop"
  /\ restyleAttempt = 0
  /\ restyledSlidesAccumulator = <<>>
  /\ batchOutcomes = <<>>
  /\ finalSlides = <<>>

RestyleUnchanged == UNCHANGED <<parserVars, genVars, callerVars, transformVars, chartVars, bufferVars,
                                 deckViewVars, imageVars>>

\* the batch of the iteration
CurrentBatch == RestyleBatch(slidesWithPlaceholders(restyleSlides), restyleI)

\* the end of an iteration of the loop: what was pushed, and i += BATCH_SIZE
BatchDone(outcome, pushed) ==
  /\ restyledSlidesAccumulator' = restyledSlidesAccumulator \o pushed
  /\ batchOutcomes' = Append(batchOutcomes, [i |-> restyleI, size |-> Len(CurrentBatch),
                                             outcome |-> outcome])
  /\ restyleI' = restyleI + RESTYLE_BATCH_SIZE
  /\ restylePc' = "loop"

\* a catch block that pushes nothing
CatchRestyleErrorPushesNothing(outcome) == BatchDone(outcome, <<>>)

\* catch (error): "Fallback on error"
CatchRestyleError(outcome) == BatchDone(outcome, FallbackOf(CurrentBatch))

\* for (let i = 0; i < slidesWithPlaceholders.length; i += BATCH_SIZE): the
\* test and the body up to the call of _withRetry
RestyleLoopHead ==
  /\ restylePc = "loop"
  /\ IF restyleI < Len(restyleSlides)
     THEN restylePc' = "call" /\ restyleAttempt' = 0
     ELSE restylePc' = "merge" /\ UNCHANGED restyleAttempt
  /\ UNCHANGED <<restyleSlides, restyleI, restyledSlidesAccumulator, batchOutcomes, finalSlides>>
  /\ RestyleUnchanged

\* _withRetry: the next call of chat.sendMessage, or the terminal error
\* behind the last attempt
RestyleCallSend ==
  /\ restylePc = "call"
  /\ IF restyleAttempt < maxRetries
     THEN /\ restylePc' = "awaitSend"
          /\ UNCHANGED <<restyleI, restyledSlidesAccumulator, batchOutcomes>>
     ELSE CatchRestyleError("exhausted")
  /\ UNCHANGED <<restyleSlides, restyleAttempt, finalSlides>>
  /\ RestyleUnchanged

\* sendMessage resolves with a text that is JSON with a slides array of
\* count slides
RestyleAnswers(count) ==
  /\ restylePc = "awaitSend"
  /\ count \in AnswerCounts(CurrentBatch)
  /\ BatchDone(IF count = Len(CurrentBatch) THEN "restyled" ELSE "miscounted",
               AnswerSlides(CurrentBatch, count))
  /\ UNCHANGED <<restyleSlides, restyleAttempt, finalSlides>>
  /\ RestyleUnchanged

\* sendMessage resolves with JSON that has no slides array ("returned
\* invalid structure"), or with a text JSON.parse throws on
RestyleAnswersBadly(isJson) ==
  /\ restylePc = "awaitSend"
  /\ IF isJson THEN BatchDone("invalid", FallbackOf(CurrentBatch))
     ELSE CatchRestyleError("notJson")
  /\ UNCHANGED <<restyleSlides, restyleAttempt, finalSlides>>
  /\ RestyleUnchanged

\* sendMessage rejects: a rate-limit error is rethrown by _withRetry at
\* once, any other error starts its backoff timer
RestyleSendRejects(error) ==
  /\ restylePc = "awaitSend"
  /\ IF IsRateLimit(error)
     THEN CatchRestyleError("429")
     ELSE /\ restylePc' = "backoff"
          /\ UNCHANGED <<restyleI, restyledSlidesAccumulator, batchOutcomes>>
  /\ UNCHANGED <<restyleSlides, restyleAttempt, finalSlides>>
  /\ RestyleUnchanged

\* the timer of _withRetry fires
RestyleBackoffElapsed ==
  /\ restylePc = "backoff"
  /\ restyleAttempt' = restyleAttempt + 1
  /\ restylePc' = "call"
  /\ UNCHANGED <<restyleSlides, restyleI, restyledSlidesAccumulator, batchOutcomes, finalSlides>>
  /\ RestyleUnchanged

\* 4. Detokenize & Merge, and the return
RestyleMerge ==
  /\ restylePc = "merge"
  /\ finalSlides' = MergeSlides(restyleSlides, restyledSlidesAccumulator,
                                globalImageMap(restyleSlides))
  /\ restylePc' = "returned"
  /\ UNCHANGED <<restyleSlides, restyleI, restyleAttempt, restyledSlidesAccumulator,
                 batchOutcomes>>
  /\ RestyleUnchanged

RestyleNext ==
  \/ RestyleLoopHead
  \/ RestyleCallSend
  \/ \E count \in 0..(RESTYLE_BATCH_SIZE + 1) : RestyleAnswers(count)
  \/ \E isJson \in BOOLEAN : RestyleAnswersBadly(isJson)
  \/ \E error \in Errors : RestyleSendRejects(error)
  \/ RestyleBackoffElapsed
  \/ RestyleMerge

RestyleSpec == RestyleInit /\ [][RestyleNext]_vars


\* ------------------------------------------------------------------------
\* Properties of parseLiveStream
\* ------------------------------------------------------------------------

\* C1: a buffer that is N complete batches of k slides each, concatenated,
\* parses with the flag set to exactly the N*k slides, in input order, and an
\* empty inProgressHtml
C1_CompleteBatchesYieldAllSlides ==
  (IsWellFormed /\ AllDelivered) =>
    LET r == parseLiveStream(fullResponse, TRUE) IN
    /\ r.completeSlides = AllClosedSlides
    /\ r.inProgressHtml = <<>>
    /\ \A m \in 1..Len(script) :
         (\A n \in 1..Len(script) : Len(script[n].slides) = Len(script[m].slides))
           => Len(r.completeSlides) = Len(script) * Len(script[m].slides)

C1_Witness ==
  /\ IsWellFormed /\ AllDelivered
  /\ Len(script) = 2
  /\ \A n \in 1..2 : Len(script[n].slides) = 2
  /\ Len(generatedSlides) = 4
  /\ generatedSlides[2] = SlideValue(SlideB)

\* C2: on a well-formed stream the number of complete slides never goes
\* down when a chunk is appended, whichever value the flag has
C2_SlideCountNeverDecreases ==
  [][IsWellFormed /\ fullResponse' # fullResponse =>
       /\ Len(generatedSlides') >= Len(generatedSlides)
       /\ Len(parseLiveStream(fullResponse', ~chunkIsComplete').completeSlides)
            = Len(generatedSlides')]_vars

C2_Witness ==
  /\ IsWellFormed
  /\ InOpenBatch
  /\ turn = 2
  /\ Len(generatedSlides) > Len(script[1].slides)

C4_AnyFenceIsInvisible ==
  fencedAt # -1 =>
    /\ fencedResult.completeSlides = generatedSlides
    /\ fencedResult.inProgressHtml = inProgressSlideHtml

\* C4, amended: in a valid buffer that holds no backquote, the marker of
\* three backquotes followed by json interleaved anywhere, or the bare marker
\* of three backquotes interleaved anywhere but right in front of the text
\* json, leaves the slides and inProgressHtml unchanged
C4_FenceIsInvisibleUnlessItMerges ==
  (/\ fencedAt # -1
   /\ ~Contains(fullResponse, <<TICK>>)
   /\ (fencedMarker = Fence => ~StartsAt(fullResponse, <<"j", "s", "o", "n">>, fencedAt)))
  => /\ fencedResult.completeSlides = generatedSlides
     /\ fencedResult.inProgressHtml = inProgressSlideHtml
     /\ ~fencedResult.threw

C4_Witness ==
  /\ fencedAt # -1
  /\ fencedMarker = FenceJson
  /\ Len(fencedResult.completeSlides) = 3
  /\ fencedResult.completeSlides = generatedSlides
  /\ StartsAt(fullResponse, <<"j", "s", "o", "n">>, fencedAt)

\* C5: parseLiveStream throws on no buffer and with neither flag, a closed
\* batch whose slides array holds a member that is not an object included
C5_ParserNeverThrows ==
  /\ caught # "parser"
  /\ ~parseLiveStream(fullResponse, ~chunkIsComplete).threw
  /\ ~fencedResult.threw

\* a closed batch left a null in the list and a slide of the open batch is
\* closed: the title comparison has met the null
C5_Witness ==
  /\ InOpenBatch
  /\ OpenBatchClosedSlides # <<>>
  /\ \E j \in 1..Len(generatedSlides) : generatedSlides[j] = JNull
  /\ caught = "none"

\* the script is valid batches and one brace-balanced fragment that is not JSON
HasSkippedFragment ==
  /\ \E n \in 1..Len(script) : script[n].kind = "notJson"
  /\ \A n \in 1..Len(script) : script[n].kind \in {"batch", "notJson"}

\* C6: a brace-balanced object that is not JSON is skipped and the scan goes
\* on: the slides of the valid batches before and behind it are returned, in
\* buffer order
C6_MalformedFragmentIsSkipped ==
  HasSkippedFragment =>
    /\ generatedSlides = ExpectedSlides
    /\ caught = "none"

C6_Witness ==
  /\ HasSkippedFragment
  /\ AllDelivered
  /\ Len(script) = 3
  /\ script[2].kind = "notJson"
  /\ generatedSlides = SlideValues(script[1].slides) \o SlideValues(script[3].slides)

\* C7: whenever the flag is set, inProgressHtml is empty, also for a buffer
\* that ends inside an unclosed slide
C7_CompleteStreamHasNoPreview ==
  chunkIsComplete => inProgressSlideHtml = <<>>

C7_Witness ==
  /\ chunkIsComplete
  /\ InContentAfterTag
  /\ inProgressSlideHtml = <<>>
  /\ parseLiveStream(fullResponse, FALSE).inProgressHtml # <<>>

\* C8: a slide whose content holds an escaped quote is one field: once its
\* object is closed the slide is returned with the quote in its content and
\* the rest of the content intact
C8_EscapedQuoteStaysInContent ==
  IsWellFormed =>
    /\ \A j \in 1..Len(AllClosedSlides) :
         Contains(Get(AllClosedSlides[j], KeyContent).v, <<QUOTE>>)
           => \E i \in 1..Len(generatedSlides) : generatedSlides[i] = AllClosedSlides[j]
    /\ \A i \in 1..Len(generatedSlides) :
         Get(generatedSlides[i], KeyTitle) = JStr(SlideB.title)
           => generatedSlides[i] = SlideValue(SlideB)

C8_Witness ==
  /\ IsWellFormed
  /\ InOpenBatch
  /\ turn = 1
  /\ \E i \in 1..Len(generatedSlides) :
       /\ generatedSlides[i] = SlideValue(SlideB)
       /\ Contains(Get(generatedSlides[i], KeyContent).v, <<"a", QUOTE, "b">>)

\* ------------------------------------------------------------------------
\* Properties of generatePresentationStream
\* ------------------------------------------------------------------------

\* C10: the turns run one after the other: at no time are two requests or
\* response streams in flight, and when the message of a turn is sent the
\* response stream of every earlier turn has been read to its end
C10_TurnsAreSequential ==
  /\ Cardinality(sendPending \cup openStreams) <= 1
  /\ \A k \in 1..Len(sentLog) :
       \A u \in 0..(sentLog[k].turn - 1) : u \in drainedTurns

C10_Witness ==
  /\ Len(sentLog) >= 3
  /\ sentLog[Len(sentLog)].turn = 2
  /\ sendPending = {2}
  /\ drainedTurns = {0, 1}
  /\ Len(yieldedLog) >= 2

\* ceil(n / BATCH_SIZE): the number of batches of an outline of n items
BatchCount(n) == (n + BATCH_SIZE - 1) \div BATCH_SIZE

\* no attempt of any turn was rejected so far
NoneFailed == \A k \in 1..Len(sentLog) : sentLog[k].attempt = 0

\* the turns (from 0) whose request covers outline item m
TurnsRequesting(m) ==
  {sentLog[k].turn : k \in {j \in 1..Len(sentLog) :
                              sentLog[j].startSlide <= m /\ m <= sentLog[j].endSlide}}

\* C11: every request of turn t asks for the outline items 4t+1 .. min(4t+4, n),
\* at most 4 of them; when no attempt failed the requests are those of the
\* turns 0, 1, 2, ... in order, and once the generator is done there are
\* exactly ceil(n/4) of them, every outline item being requested in exactly
\* one turn
C11_BatchesPartitionTheOutline ==
  /\ \A k \in 1..Len(sentLog) :
        /\ sentLog[k].startSlide = BATCH_SIZE * sentLog[k].turn + 1
        /\ sentLog[k].endSlide = Min(BATCH_SIZE * sentLog[k].turn + BATCH_SIZE, outlineLength)
        /\ sentLog[k].endSlide - sentLog[k].startSlide + 1 \in 1..BATCH_SIZE
  /\ NoneFailed => \A k \in 1..Len(sentLog) : sentLog[k].turn = k - 1
  /\ (NoneFailed /\ genPc = "done") =>
        /\ Len(sentLog) = BatchCount(outlineLength)
        /\ \A m \in 1..outlineLength : Cardinality(TurnsRequesting(m)) = 1

C11_Witness ==
  /\ genPc = "done"
  /\ NoneFailed
  /\ outlineLength = 2 * BATCH_SIZE + 1
  /\ Len(sentLog) = 3
  /\ sentLog[3].startSlide = sentLog[3].endSlide

\* the batch index of the batch that covers the last outline item
FinalBatchIndex == BatchCount(outlineLength) - 1

\* C12: a yielded chunk carries isComplete = TRUE exactly when it belongs to
\* the final batch index; every chunk of an earlier batch carries FALSE
C12_IsCompleteOnlyInFinalBatch ==
  \A k \in 1..Len(yieldedLog) :
    yieldedLog[k].isComplete <=> (yieldedLog[k].turn = FinalBatchIndex)

C12_Witness ==
  /\ Len(yieldedLog) >= 2
  /\ yieldedLog[1].turn = 0
  /\ ~yieldedLog[1].isComplete
  /\ yieldedLog[Len(yieldedLog)].turn = FinalBatchIndex
  /\ yieldedLog[Len(yieldedLog)].isComplete
  /\ FinalBatchIndex >= 1

\* C13 as claimed: in one run at most one yielded chunk carries
\* isComplete = TRUE, and no chunk follows it
C13_IsCompleteOnlyOnConcludingChunk ==
  \A k \in 1..Len(yieldedLog) : yieldedLog[k].isComplete => k = Len(yieldedLog)

\* ------------------------------------------------------------------------
\* Properties of _withRetry and of the failure path
\* ------------------------------------------------------------------------

\* the requests of sentLog that belong to turn t
SendsOf(t) == {k \in 1..Len(sentLog) : sentLog[k].turn = t}

\* the backoff timers started for turn t
BackoffsOf(t) == {k \in 1..Len(backoffLog) : backoffLog[k].turn = t}

\* C14: once the wrapped call has failed with an error whose message holds
\* "429" or whose code is 429, the generator has failed with that same
\* error, the failed call is the last one that was made, and no backoff timer
\* was started for it
C14_RateLimitIsNeverRetried ==
  (lastError.defined /\ (lastError.message429 \/ lastError.code429)) =>
    /\ genPc = "failed"
    /\ thrown = "429"
    /\ thrownError = lastError
    /\ Len(sentLog) > 0
    /\ sentLog[Len(sentLog)].turn = TurnOf(loopI)
    /\ sentLog[Len(sentLog)].attempt = attempt
    /\ \A k \in BackoffsOf(TurnOf(loopI)) : backoffLog[k].attempt # attempt

C14_Witness ==
  /\ lastError = Error(FALSE, TRUE)
  /\ attempt = 1
  /\ TurnOf(loopI) = 1
  /\ Len(backoffLog) = 1
  /\ genPc = "failed"

\* C15: a call is attempted at most 3 times per turn, the attempts of a turn
\* being numbered 0, 1, 2 in order; the wait started after the i-th failed
\* attempt (i from 1) is i seconds; a request is never made for a turn whose
\* call has already resolved; and the terminal error is thrown exactly after
\* 3 failed attempts, none of them a rate-limit signal, each followed by its
\* wait
C15_TransientFailuresAreRetried ==
  [][/\ \A k \in 1..Len(sentLog') : sentLog'[k].attempt \in 0..2
     /\ \A t \in 0..2 : \A k \in SendsOf(t)' :
          sentLog'[k].attempt = Cardinality({j \in SendsOf(t)' : j < k})
     /\ \A k \in 1..Len(backoffLog') :
          backoffLog'[k].seconds = backoffLog'[k].attempt + 1
     /\ Len(sentLog') > Len(sentLog) =>
          sentLog'[Len(sentLog')].turn \notin (openStreams \cup drainedTurns)
     /\ (genPc = "backoff" /\ attempt < 2) => genPc' = "call"
     /\ thrown' = "exhausted" =>
          /\ genPc' = "failed"
          /\ Cardinality(SendsOf(TurnOf(loopI))') = 3
          /\ Cardinality(BackoffsOf(TurnOf(loopI))') = 3
          /\ lastError'.defined /\ ~lastError'.message429 /\ ~lastError'.code429
          /\ thrownError'.defined
     /\ (Cardinality(BackoffsOf(TurnOf(loopI))') = 3 /\ genPc' \notin {"backoff", "call"})
          => thrown' = "exhausted"
    ]_vars

C15_Witness ==
  /\ thrown = "exhausted"
  /\ TurnOf(loopI) = 1
  /\ Len(sentLog) = 5
  /\ sentLog[2].attempt = 1
  /\ 0 \in drainedTurns
  /\ backoffLog[Len(backoffLog)].seconds = 3

\* C16: once a turn has failed (its error was reported by the catch block of
\* the batch) the generator is in its failed state with an error to throw,
\* exactly one batch was reported and it is the batch of the failing turn,
\* and from then on no request is sent, no chunk is yielded and no response
\* stream is open; the caller catches nothing but a failure of the generator
C16_FailureHaltsTheLoop ==
  [][/\ Len(reportedBatches') > 0 =>
          /\ genPc' = "failed"
          /\ thrown' \in {"429", "exhausted", "stream"}
          /\ thrownError'.defined
          /\ reportedBatches' =
               <<[startSlide |-> BATCH_SIZE * TurnOf(loopI') + 1,
                  endSlide |-> Min(BATCH_SIZE * TurnOf(loopI') + BATCH_SIZE, outlineLength')]>>
          /\ sendPending' = {} /\ openStreams' = {}
     /\ Len(reportedBatches) > 0 =>
          UNCHANGED <<sentLog, yieldedLog, loopI, genPc, thrownError>>
     /\ genPc' = "failed" => Len(reportedBatches') > 0
     /\ caught' = "generator" => genPc' = "failed"
    ]_vars

C16_Witness ==
  /\ caught = "generator"
  /\ thrown = "stream"
  /\ reportedBatches = <<[startSlide |-> 5, endSlide |-> 8]>>
  /\ outlineLength = 9
  /\ Len(yieldedLog) >= 2

\* C17: saveDeck is called only after the generator returned without
\* throwing; when the generator threw, neither saveDeck nor onDeckCreated is
\* ever called, and once the caller has caught the failure the step is
\* theme_selection
C17_NoSaveOnFailure ==
  /\ saveDeckCalled => (genPc = "done" /\ thrown = "none" /\ reportedBatches = <<>>)
  /\ onDeckCreatedCalled => saveDeckCalled
  /\ thrown # "none" => (~saveDeckCalled /\ ~onDeckCreatedCalled)
  /\ caught # "none" => (step = "theme_selection" /\ ~onDeckCreatedCalled)

C17_Witness ==
  /\ caught = "generator"
  /\ step = "theme_selection"
  /\ 0 \in drainedTurns
  /\ Len(yieldedLog) >= 1
  /\ ~saveDeckCalled

\* C18 as claimed: whenever the caller has caught an error of the generator
\* whose message holds "429" or whose code is 429, the rate-limit modal is
\* open and no toast is shown
C18_RateLimitOpensTheModal ==
  (caught = "generator" /\ (thrownError.message429 \/ thrownError.code429)) =>
    (isRateLimitModalOpen /\ toast = "none")

\* ------------------------------------------------------------------------
\* Structural response failure
\* ------------------------------------------------------------------------

\* the turns whose text is a closed JSON object without a slides array and
\* was received to its last character
ReceivedWithoutSlides ==
  {n \in 1..Len(script) :
     /\ script[n].kind = "noSlides"
     /\ (n < turn \/ (n = turn /\ offset = Len(script[n].text)))}

\* C19 as claimed: once a closed top-level object that is JSON but has no
\* slides array was received, the run has failed: the caller has caught an
\* error and has left the generating step
C19_MissingSlidesFailsTheTurn ==
  ReceivedWithoutSlides # {} => (caught # "none" /\ step = "theme_selection")

\* ------------------------------------------------------------------------
\* Properties of transformPollinationsURLs
\* ------------------------------------------------------------------------

\* C20 as claimed: running the transformation on its own result changes
\* nothing
C20_TransformIsIdempotent ==
  (transformPasses = 2 /\ ~transformThrew) => transformedContent = previousContent

\* ------------------------------------------------------------------------
\* C21
\* ------------------------------------------------------------------------

\* the value of the config attribute the chart tag was written with (the
\* last one written), <<>> when it was written with none
WrittenConfig ==
  IF \E n \in 1..Len(chartAttributes) : chartAttributes[n].key = KeyConfig
  THEN chartAttributes[
         CHOOSE n \in 1..Len(chartAttributes) :
           /\ chartAttributes[n].key = KeyConfig
           /\ \A m \in (n + 1)..Len(chartAttributes) : chartAttributes[m].key # KeyConfig
       ].value
  ELSE <<>>

CarriesConfig == \E n \in 1..Len(chartAttributes) : chartAttributes[n].key = KeyConfig

\* the content behind its first conversion
FirstConversion == IF convertPasses = 1 THEN convertedContent ELSE unconvertedContent

\* the query parameter c of the address of the img tag a text starts with
QueryParameterC(text) ==
  Sub(text, Len(ImgOpen),
      MinOf({e \in Len(ImgOpen)..Len(text) : e = Len(text) \/ text[e + 1] = QUOTE}))

\* C21: a chart tag that carries a config attribute is rewritten into an
\* img tag whose query parameter c, percent-decoded, is the config value,
\* and converting a content twice gives what converting it once gives.
C21_ConversionKeepsConfigAndIsIdempotent ==
  /\ (convertPasses >= 1 /\ CarriesConfig) =>
       /\ StartsAt(FirstConversion, ImgOpen, 0)
       /\ ~DecodeThrows(QueryParameterC(FirstConversion))
       /\ decodeURIComponent(QueryParameterC(FirstConversion)) = WrittenConfig
  /\ convertPasses = 2 => convertedContent = unconvertedContent

\* ------------------------------------------------------------------------
\* C22
\* ------------------------------------------------------------------------

\* the text of the chunk the step consumed: the characters of the script
\* between the old and the new position
ConsumedText == Sub(script[turn'].text, IF turn' = turn THEN offset ELSE 0, offset')

\* C22: during a run the buffer handed to parseLiveStream only grows: every
\* chunk is appended to the buffer, also across a turn boundary, and every
\* chunk is followed by one parse of the whole buffer, with no parse between
\* two chunks.
C22_BufferOnlyGrowsAndIsParsedWhole ==
  [][/\ (turn' # turn \/ offset' # offset) =>
          /\ ConsumedText # <<>>
          /\ fullResponse' = fullResponse \o ConsumedText
          /\ parsedBuffer' = fullResponse'
          /\ parsedBuffer' # parsedBuffer
     /\ parsedBuffer' # parsedBuffer => (turn' # turn \/ offset' # offset)
     /\ parsedBuffer' = fullResponse']_vars

\* a chunk of the second turn was parsed together with the whole first turn
C22_Witness ==
  /\ turn = 2
  /\ offset > 0
  /\ Len(parsedBuffer) = Len(script[1].text) + offset
  /\ parsedBuffer = fullResponse

\* ------------------------------------------------------------------------
\* C23
\* ------------------------------------------------------------------------

\* C23: once the consumer has left the generator behind a yielded chunk, no
\* request to the backend is pending and no backoff timer runs, and from
\* then on no request is sent, no retry attempt is made and no backoff
\* timer is started.
C23_AbandonmentLeavesNoRetry ==
  [][abandoned' =>
       /\ sendPending' = {}
       /\ genPc' \notin {"call", "awaitSend", "backoff"}
       /\ abandoned =>
            /\ sentLog' = sentLog
            /\ backoffLog' = backoffLog
            /\ attempt' = attempt]_vars

\* the generator was left, in either way, while the second turn was being
\* streamed, behind a first attempt of that turn that had failed
C23_Witness ==
  /\ abandoned
  /\ loopI = BATCH_SIZE
  /\ backoffLog # <<>>
  /\ attempt > 0

\* ------------------------------------------------------------------------
\* Properties of parseLiveStream on one buffer
\* ------------------------------------------------------------------------

\* the candidate is JSON for an object with a title and a non-empty content
IsAcceptable(candidate) ==
  /\ candidate.kind # "notJson"
  /\ Truthy(Get(candidate.value, KeyTitle))
  /\ Truthy(Get(candidate.value, KeyContent))

\* a slide of the list has exactly the title of the value
TitleIsIn(slides, value) ==
  \E k \in 1..Len(slides) :
    /\ slides[k].t = "object"
    /\ Get(slides[k], KeyTitle) = Get(value, KeyTitle)

RECURSIVE AcceptedInto(_, _)
\* the accumulator once the candidates were gone through in order, each
\* appended if and only if it is acceptable and its title is new
AcceptedInto(slides, candidates) ==
  IF candidates = <<>> THEN slides
  ELSE AcceptedInto(IF IsAcceptable(Head(candidates)) /\ ~TitleIsIn(slides, Head(candidates).value)
                    THEN Append(slides, Head(candidates).value) ELSE slides,
                    Tail(candidates))

\* the closed part is recognised as what it is by the batch scan
ClosedPartIsPlain == bufferShape.closed.kind \in {"none", "batch", "nullMember"}

\* C24 as claimed: behind the slides of the closed part, the list holds the
\* closed candidates of the open batch that are JSON, have a title and a
\* non-empty content, and whose title no slide before them has; the others
\* are skipped and nothing is raised.
C24_CandidateAppendedIffValidAndNew ==
  (bufferParsed /\ ClosedPartIsPlain) =>
    /\ ~bufferResult.threw
    /\ bufferResult.completeSlides
         = AcceptedInto(bufferShape.closed.slides, bufferShape.candidates)

\* ------------------------------------------------------------------------
\* C25
\* ------------------------------------------------------------------------

\* the closed part and every candidate are slides as the schema wants them
BufferIsValid ==
  /\ bufferShape.closed.kind \in {"none", "batch"}
  /\ \A k \in 1..Len(bufferShape.candidates) : bufferShape.candidates[k].kind = "slide"

\* what the slide scan is run on: the open batch behind "slides":[
SlidesStringOf(shape) ==
  SubFrom(OpenBatchText(shape), Len(Quoted(KeySlides)) + 3)

\* the state the batch loop ends in on the buffer
BatchScanOf(text) == BatchScan(cleanStream(text), 0, Len(cleanStream(text)), BatchScanInit)

\* the state the slide loop ends in on the open batch of the buffer
SlideScanOf(shape) ==
  SlideScan(SlidesStringOf(shape), 0, Len(SlidesStringOf(shape)),
            SlideScanInit(shape.closed.slides))

\* C25: the braces that occur inside the string values of a valid buffer
\* change neither brace depth: at the end of the buffer the batch scan is
\* as deep as the open batch and the cut slide, if any, the slide scan as
\* deep as the cut slide, and every closed slide was taken for complete
\* where its own brace closes.
C25_BracesInStringsAreNotCounted ==
  (bufferParsed /\ BufferIsValid) =>
    /\ BatchScanOf(bufferText).braceCount = (IF bufferShape.cut THEN 2 ELSE 1)
    /\ BatchScanOf(bufferText).lastValidBatchEndIndex = Len(bufferShape.closed.text)
    /\ SlideScanOf(bufferShape).slideBraceCount = (IF bufferShape.cut THEN 1 ELSE 0)
    /\ bufferResult.completeSlides
         = AcceptedInto(bufferShape.closed.slides, bufferShape.candidates)

\* a closed batch whose slide holds "}" in its strings, and an open batch
\* with a closed slide whose content holds an escaped quote and "{"
C25_Witness ==
  /\ bufferParsed
  /\ BufferIsValid
  /\ bufferShape.closed.kind = "batch"
  /\ bufferShape.candidates = <<SlideCandidateOf(SlideB), SlideCandidateOf(SlideA)>>
  /\ bufferResult.completeSlides
       = <<SlideValue(SlideK), SlideValue(SlideB), SlideValue(SlideA)>>

\* ------------------------------------------------------------------------
\* C26
\* ------------------------------------------------------------------------

\* the unescaped in-progress fragment of a buffer with a cut slide: what
\* the stream holds behind the opening quote of its content, unescaped
FragmentOf(shape) == Unescape(TokensText(shape.tokens))

\* no content field opener is left in the active region: there is no cut
\* slide and the last closed candidate, if any, was accepted or was a
\* duplicate
ActiveRegionIsEmpty ==
  /\ ~bufferShape.cut
  /\ bufferShape.closed.kind \in {"none", "batch"}
  /\ bufferShape.candidates # <<>> =>
       IsAcceptable(bufferShape.candidates[Len(bufferShape.candidates)])

\* C26: without the flag, a fragment that holds a ">" is shown as it is
\* when it holds "</div>" and with "</div>" appended when it does not; a
\* fragment without ">" and an active region without a content field give
\* an empty inProgressHtml; so an inProgressHtml that is not empty holds
\* "</div>".
C26_PreviewIsClosedOrEmpty ==
  bufferParsed =>
    /\ (bufferShape.cut /\ ~bufferFlag) =>
         bufferResult.inProgressHtml
           = (IF Contains(FragmentOf(bufferShape), <<">">>)
              THEN (IF Contains(FragmentOf(bufferShape), CloseDiv)
                    THEN FragmentOf(bufferShape)
                    ELSE FragmentOf(bufferShape) \o CloseDiv)
              ELSE <<>>)
    /\ ActiveRegionIsEmpty => bufferResult.inProgressHtml = <<>>
    /\ bufferResult.inProgressHtml # <<>> => Contains(bufferResult.inProgressHtml, CloseDiv)

\* a fragment with a ">" and without "</div>" was given its closing tag
C26_Witness ==
  /\ bufferParsed
  /\ bufferShape.cut
  /\ ~bufferFlag
  /\ Contains(FragmentOf(bufferShape), <<">">>)
  /\ ~Contains(FragmentOf(bufferShape), CloseDiv)
  /\ bufferResult.inProgressHtml = FragmentOf(bufferShape) \o CloseDiv

\* ------------------------------------------------------------------------
\* C27
\* ------------------------------------------------------------------------

\* what JSON.parse would make of the content received so far
DecodedOf(shape) == TokensDecoded(shape.tokens)

\* C27 as claimed: the fragment that is shown for a cut content made of
\* plain characters and of the escape sequences \" \n \\ is the JSON-decoded
\* value of that content (with the closing tag when it holds none).
C27_FragmentIsTheDecodedContent ==
  (bufferParsed /\ bufferShape.cut /\ ~bufferFlag /\ Contains(DecodedOf(bufferShape), <<">">>)) =>
    bufferResult.inProgressHtml
      = (IF Contains(DecodedOf(bufferShape), CloseDiv)
         THEN DecodedOf(bufferShape)
         ELSE DecodedOf(bufferShape) \o CloseDiv)

\* ------------------------------------------------------------------------
\* C28
\* ------------------------------------------------------------------------

\* the batches whose request failed or whose answer had no slides array
FallbackBatches ==
  {b \in 1..Len(batchOutcomes) :
     batchOutcomes[b].outcome \in {"exhausted", "429", "notJson", "invalid"}}

AnswersAreOneToOne ==
  \A b \in 1..Len(batchOutcomes) : batchOutcomes[b].outcome # "miscounted"

DepthBehind(text, p) == BatchScan(cleanStream(text), 0, p, BatchScanInit).braceCount

\* C29 as claimed: on a buffer that starts with an unmatched "}" the brace
\* depth of the batch scan is below zero at no position, and the slides of
\* the complete batch behind the brace are returned.
C29_DepthIsNeverNegative ==
  (bufferParsed /\ bufferShape.closed.kind = "strayBrace") =>
    /\ \A p \in 0..Len(cleanStream(bufferText)) : DepthBehind(bufferText, p) >= 0
    /\ bufferResult.completeSlides # <<>>
    /\ bufferResult.completeSlides[1] = SlideValue(SlideK)

\* ------------------------------------------------------------------------
\* C30
\* ------------------------------------------------------------------------

\* a parsed value that is a slide record: an object whose title and content
\* are strings that are not empty
IsSlideRecord(x) ==
  /\ x.t = "object"
  /\ Get(x, KeyTitle).t = "string" /\ Get(x, KeyTitle).v # <<>>
  /\ Get(x, KeyContent).t = "string" /\ Get(x, KeyContent).v # <<>>

\* C30 as claimed: whatever the buffer, every element of completeSlides is
\* a slide record.
C30_EveryElementIsASlideRecord ==
  bufferParsed =>
    \A k \in 1..Len(bufferResult.completeSlides) :
      IsSlideRecord(bufferResult.completeSlides[k])

\* ------------------------------------------------------------------------
\* C31
\* ------------------------------------------------------------------------

\* a is a prefix of b: the same records in the same positions
IsPrefixOf(a, b) == Len(a) <= Len(b) /\ Sub(b, 0, Len(a)) = a

\* C31 as claimed: on a well-formed stream the slides shown before a chunk
\* arrived are a prefix of the slides shown after it, so that a shown slide
\* never moves and no slide is inserted in front of it.
C31_ShownSlidesStayInPlace ==
  [][IsWellFormed /\ fullResponse' # fullResponse =>
       IsPrefixOf(generatedSlides, generatedSlides')]_vars

\* ------------------------------------------------------------------------
\* C32
\* ------------------------------------------------------------------------

\* the content of the open slide as far as it is received, unescaped: all
\* of it once its closing quote is received
ReceivedContent ==
  IF offset > ContentEndOffset(script[turn].slides, OpenSlide)
  THEN script[turn].slides[OpenSlide].content
  ELSE SeenContent

\* C32 as claimed: on a well-formed stream a non-empty inProgressHtml is the
\* content of the open slide received so far, unescaped, with or without a
\* "</div>" behind it: it holds neither the closing quote of the content
\* string nor anything of the JSON text behind it.
C32_PreviewHoldsOnlyContent ==
  LET html == parseLiveStream(fullResponse, FALSE).inProgressHtml IN
  (IsWellFormed /\ html # <<>>) =>
    /\ OpenSlide # 0
    /\ html \in {ReceivedContent, ReceivedContent \o CloseDiv}

\* ------------------------------------------------------------------------
\* C33
\* ------------------------------------------------------------------------

\* C33 as claimed: whatever the content of a slide, its final
\* transformation (the image addresses, then the chart tags) throws
\* nothing, neither in its first function nor as a whole.
C33_FinalTransformNeverThrows ==
  transformPasses > 0 =>
    /\ ~transformThrew
    /\ ~FinalTransform(slideContent, pollinationsKey).threw

\* ------------------------------------------------------------------------
\* C34
\* ------------------------------------------------------------------------

\* a chunk of turn t was yielded
HasYielded(t) == \E k \in 1..Len(yieldedLog) : yieldedLog[k].turn = t

\* C34: a failure of the response stream while it is drained makes the
\* generator fail with that error and sends nothing; from then on no
\* message is sent and no backoff timer is started; and whenever a message
\* is sent, no chunk of its turn was yielded before, and a message that is
\* not the first of its turn follows a backoff of the attempt before.
C34_StreamFailureIsNotRetried ==
  [][/\ (genPc = "streaming" /\ genPc' \notin {"streaming", "yielded", "loop"}) =>
          /\ genPc' = "failed"
          /\ thrown' = "stream"
          /\ thrownError'.defined
          /\ UNCHANGED <<sentLog, backoffLog, attempt>>
     /\ thrown = "stream" => UNCHANGED <<sentLog, backoffLog, attempt, genPc>>
     /\ Len(sentLog') > Len(sentLog) =>
          LET sent == sentLog'[Len(sentLog')] IN
          /\ ~HasYielded(sent.turn)
          /\ sent.attempt > 0 =>
               \E k \in BackoffsOf(sent.turn) : backoffLog[k].attempt = sent.attempt - 1
    ]_vars

C34_Witness ==
  /\ thrown = "stream"
  /\ caught = "generator"
  /\ HasYielded(TurnOf(loopI))
  /\ TurnOf(loopI) = 1
  /\ Cardinality(SendsOf(1)) = 2
  /\ Cardinality(BackoffsOf(1)) = 1

\* ------------------------------------------------------------------------
\* C35
\* ------------------------------------------------------------------------

\* C35 as claimed: when the wrapped call fails with an error whose code is
\* not 429, whatever its message, _withRetry starts the backoff timer of
\* the attempt and goes on to the next attempt; it rethrows at once only an
\* error whose code is 429.
C35_OnlyCode429IsNotRetried ==
  [][(genPc = "awaitSend" /\ genPc' # "streaming" /\ ~lastError'.code429) =>
       /\ genPc' = "backoff"
       /\ Len(backoffLog') = Len(backoffLog) + 1
       /\ thrown' = "none"]_vars

\* ------------------------------------------------------------------------
\* C36
\* ------------------------------------------------------------------------

\* let finalCompleteSlides = [] still has its initial value: it is assigned
\* in the body of the for await only, once for every chunk that is yielded
FinalCompleteSlidesUnassigned == yieldedLog = <<>>

\* C36 as claimed: whatever the outline and the backend, when saveDeck is
\* called the deck holds at least one slide; the slides of the deck are
\* those of finalCompleteSlides, so it has been assigned by then.
C36_SavedDeckHasASlide ==
  saveDeckCalled => ~FinalCompleteSlidesUnassigned

\* ------------------------------------------------------------------------
\* C37
\* ------------------------------------------------------------------------

\* C37 as claimed: whenever DeckView renders the editor for the deck it
\* holds, activeSlideIndex is below the number of the deck's slides.
C37_ActiveSlideIsInTheDeck ==
  EditorRendered => activeSlideIndex < deck.slides

\* ------------------------------------------------------------------------
\* C38
\* ------------------------------------------------------------------------

\* C38 as claimed: at most one restyle of the deck is in flight, and
\* isWorking is true as long as one is.
C38_OneOperationWhileWorking ==
  /\ Len(restylesPending) <= 1
  /\ restylesPending # <<>> => isWorking


\* ------------------------------------------------------------------------
\* C40: the convertQuickChartTags nested in restoreImages returns, for the
\* content it is handed, what the exported convertQuickChartTags returns
\* for the same content
\* ------------------------------------------------------------------------
C40_NestedConversionAgrees ==
  convertPasses > 0 => nestedContent = convertedContent


\* ------------------------------------------------------------------------
\* C39: when the contents come back as they were sent, restoring the
\* placeholders with the image map of the tokenization gives the contents
\* as they were written, every image with its own address, for editContent
\* and for restyleDeck
\* ------------------------------------------------------------------------
C39_ImagesRoundTrip ==
  imagePc = "restored" => restoredSlides = imageSlides

====
